---------------------------- MODULE Spec2Model ----------------------------
(***************************************************************************)
(* Model of the xmbl application builder backend (routes/apps.js):         *)
(*   - the deployment routes and their deferred status update,             *)
(*   - the Vue code generator (generateVueApp, generateVuePageComponent,   *)
(*     generateVueTemplate, generateVueStyles).                            *)
(*                                                                         *)
(* Text is modelled as a sequence of fragments.  A fragment is either one  *)
(* character (where the code works character by character: style keys,    *)
(* page names) or one literal chunk of a template string.  Concatenation   *)
(* of JavaScript strings is \o; the empty string is << >>.                 *)
(***************************************************************************)
EXTENDS Integers, Sequences, FiniteSets, TLC

VARIABLES
    apps,        \* the apps collection: app id -> document
    pagesOf,     \* per app, the pages a query on isDeleted == false returns
    componentsOf, \* per app, the custom components such a query returns
    deployments, \* the deployments collection: the i-th document created
    tasks,       \* per deployment document, where its deferred callback stands
    response,    \* the response to the latest request of the deploy router
    appDocs,     \* apps collection as the apps and builder routers see it
    pageDocs,    \* pages collection: the i-th page document created
    inflight,    \* requests of those routers between two of their awaits
    reply,       \* the latest step of those routers: request and answer
    emitArg,     \* argument of the generator call under examination
    emitOut,     \* value returned by that call
    emitPc,      \* "ready" before the call, "done" after it returned
    isVisible,   \* tooltip: whether it is shown
    showTimer,   \* tooltip: handle of the latest show timer, 0 before the first
    hideTimer,   \* tooltip: handle of the latest hide timer, 0 before the first
    timers,      \* tooltip: the pending timers, each with its handle and callback
    nextTimer,   \* tooltip: the handle the next setTimeout returns
    lastEvent,   \* tooltip: the latest mouse event on the trigger
    isInitializing, \* auth store: no auth state received yet
    authUser,    \* auth store: user.value, "null" or "set"
    userProfile, \* auth store: "null" or the role of the profile
    isLoading,   \* ui store: the loading indicator
    navPc,       \* router: where the navigation in progress stands
    navTo,       \* router: the location the navigation in progress goes to
    currentRoute, \* router: the location of the last completed navigation
    navLog,      \* router: how the latest navigation ended
    isSearchOpen,          \* ui store
    searchQuery,           \* ui store: "" or a query
    isCommandPaletteOpen,  \* ui store
    modals,                \* ui store: the ids of the open modals, oldest first
    sidebars,              \* ui store: the ids of the open sidebars, oldest first
    confirmDialog,         \* ui store: "null" or "set"
    uiNextId,              \* ui store: the rank of the next modal or sidebar opened
    lastKey,               \* ui store: the latest call, "Escape" for that key
    notifications,         \* ui store: the notifications shown, oldest first
    noteTimers,            \* ui store: ids whose removal timer is pending
    noteNextId,            \* ui store: the rank of the next notification added
    lastTimer              \* ui store: id whose timer fired in the latest step, else 0

builderVars == <<appDocs, pageDocs, inflight, reply>>

tooltipVars == <<isVisible, showTimer, hideTimer, timers, nextTimer, lastEvent>>

navVars == <<isInitializing, authUser, userProfile, isLoading, navPc, navTo,
             currentRoute, navLog>>

uiVars == <<isSearchOpen, searchQuery, isCommandPaletteOpen, modals, sidebars,
            confirmDialog, uiNextId, lastKey>>

noteVars == <<notifications, noteTimers, noteNextId, lastTimer>>

frontVars == <<tooltipVars, navVars, uiVars, noteVars>>

storeVars == <<apps, pagesOf, componentsOf, deployments, tasks, response,
               builderVars, frontVars>>

emitVars == <<emitArg, emitOut, emitPc>>

vars == <<apps, pagesOf, componentsOf, deployments, tasks, response,
          appDocs, pageDocs, inflight, reply, emitArg, emitOut, emitPc,
          frontVars>>

-----------------------------------------------------------------------------
(* Bounds of the model *)

MaxKeyLen == 3       \* longest style key, in characters
MaxEntries == 2      \* most entries of a style map
MaxNodes == 3        \* most nodes of a component tree list (all depths together)
MaxNameLen == 3      \* longest page name, in characters
MaxPages == 2        \* most pages of an app
MaxAppDocs == 3       \* most app documents created
MaxPageDocs == 2      \* most page documents created
MaxInflight == 2      \* most requests of the apps and builder routers in flight
MaxDeployments == 2  \* most deployment documents created
MaxItems == 5        \* most documents matching a list request
MaxPageNo == 3       \* largest page parameter of a list request
MaxLimit == 3        \* largest limit parameter of a list request
MaxTimers == 4       \* most timers a tooltip sets
MaxOpened == 3       \* most modals and sidebars opened in a run
MaxNotes == 3        \* most notifications added in a run

-----------------------------------------------------------------------------
(* Characters and the string methods the generator uses *)

UpperSeq == <<"A","B","C","D","E","F","G","H","I","J","K","L","M",
              "N","O","P","Q","R","S","T","U","V","W","X","Y","Z">>
LowerSeq == <<"a","b","c","d","e","f","g","h","i","j","k","l","m",
              "n","o","p","q","r","s","t","u","v","w","x","y","z">>

\* /[A-Z]/
IsUpper(c) == \E i \in DOMAIN UpperSeq : UpperSeq[i] = c

\* String.prototype.toLowerCase on one character
LowerChar(c) ==
    IF IsUpper(c) THEN LowerSeq[CHOOSE i \in DOMAIN UpperSeq : UpperSeq[i] = c]
    ELSE c

\* String.prototype.toLowerCase
toLowerCase(s) == [i \in DOMAIN s |-> LowerChar(s[i])]

\* /\s/
IsSpace(c) == c \in {" ", "\t", "\n"}

RECURSIVE Concat(_)
\* Array.prototype.join('') of a sequence of strings
Concat(ss) == IF ss = << >> THEN << >> ELSE Head(ss) \o Concat(Tail(ss))

RECURSIVE Join(_, _)
\* Array.prototype.join(sep)
Join(ss, sep) ==
    IF ss = << >> THEN << >>
    ELSE IF Len(ss) = 1 THEN Head(ss)
    ELSE Head(ss) \o sep \o Join(Tail(ss), sep)

-----------------------------------------------------------------------------
(* generateVueStyles *)

\* The replacement without the g flag: only the first upper-case letter is replaced
KebabFirstOnly(key) ==
    IF \E i \in DOMAIN key : IsUpper(key[i])
    THEN LET i == CHOOSE j \in DOMAIN key :
                     IsUpper(key[j]) /\ \A k \in 1..(j-1) : ~IsUpper(key[k])
         IN SubSeq(key, 1, i-1) \o <<"-", LowerChar(key[i])>>
                \o SubSeq(key, i+1, Len(key))
    ELSE key

\* key.replace(/[A-Z]/g, letter => `-${letter.toLowerCase()}`)
Kebab(key) ==
    Concat([i \in DOMAIN key |->
              IF IsUpper(key[i]) THEN <<"-", LowerChar(key[i])>> ELSE <<key[i]>>])

\* css += `  ${kebabKey}: ${value};\n`
StyleLine(entry) ==
    <<" ", " ">> \o Kebab(entry.key) \o <<":", " ">> \o entry.value \o <<";", "\n">>

\* A style map is [defined |-> BOOLEAN, entries |-> sequence of [key, value]]:
\* defined = FALSE is undefined/null, entries is Object.entries(styles) in order.
generateVueStyles(styles) ==
    IF ~styles.defined THEN << >>
    ELSE Concat([i \in DOMAIN styles.entries |-> StyleLine(styles.entries[i])])

-----------------------------------------------------------------------------
(* generateVueTemplate *)

\* A component node is a record with the field type and, when the document
\* carries them, the fields props (a record of the props present) and children
\* (a sequence of nodes).  obj.field is undefined when the field is absent.
Has(obj, field) == field \in DOMAIN obj

\* `${s}` of a string value
Text(s) == IF s = "" THEN << >> ELSE <<s>>

\* A reading of a string prop that falls back only when the prop is absent
StrPropNullish(component, key, dflt) ==
    IF Has(component, "props") /\ Has(component.props, key)
    THEN component.props[key] ELSE dflt

\* component.props?.key || dflt, for a prop holding a string
StrProp(component, key, dflt) ==
    IF Has(component, "props") /\ Has(component.props, key)
          /\ component.props[key] # ""
    THEN component.props[key] ELSE dflt

\* component.props?.key || dflt, for a prop holding a number
NumProp(component, key, dflt) ==
    IF Has(component, "props") /\ Has(component.props, key)
          /\ component.props[key] # 0
    THEN component.props[key] ELSE dflt

EmptyPagePlaceholder == "    <div class=\"empty-page\">This page is empty</div>"

RECURSIVE generateVueTemplate(_)

\* case 'heading'
EmitHeading(component) ==
    <<"    <h", ToString(NumProp(component, "level", 1)), " class=\"heading\">">>
        \o Text(StrProp(component, "text", ""))
        \o <<"</h", ToString(NumProp(component, "level", 1)), ">">>

\* case 'text'
EmitText(component) ==
    <<"    <p class=\"text\">">> \o Text(StrProp(component, "content", ""))
        \o <<"</p>">>

\* case 'button'
EmitButton(component) ==
    <<"    <button class=\"btn\" @click=\"handleClick\">">>
        \o Text(StrProp(component, "text", "Button")) \o <<"</button>">>

\* case 'image'
EmitImage(component) ==
    <<"    <img src=\"">> \o Text(StrProp(component, "src", ""))
        \o <<"\" alt=\"">> \o Text(StrProp(component, "alt", ""))
        \o <<"\" class=\"image\" />">>

\* The container case emitting only its first child
EmitContainerFirstChild(component) ==
    <<"    <div class=\"container ">> \o Text(StrProp(component, "className", ""))
        \o <<"\">", "\n">>
        \o (IF Has(component, "children") /\ component.children # << >>
            THEN generateVueTemplate(<<Head(component.children)>>) ELSE << >>)
        \o <<"\n", "    </div>">>

\* case 'container'
EmitContainer(component) ==
    <<"    <div class=\"container ">> \o Text(StrProp(component, "className", ""))
        \o <<"\">", "\n">>
        \o (IF Has(component, "children")
            THEN generateVueTemplate(component.children) ELSE << >>)
        \o <<"\n", "    </div>">>

\* A hero whose button is emitted whenever the buttonText prop is present
EmitHeroButtonIfPresent(component) ==
    <<"    <section class=\"hero\">", "\n",
      "      <div class=\"hero-content\">", "\n",
      "        <h1 class=\"hero-title\">">>
        \o Text(StrProp(component, "title", "")) \o <<"</h1>", "\n",
      "        <p class=\"hero-subtitle\">">>
        \o Text(StrProp(component, "subtitle", "")) \o <<"</p>", "\n",
      "        ">>
        \o (IF Has(component, "props") /\ Has(component.props, "buttonText")
            THEN <<"<button class=\"hero-button\">">>
                    \o Text(component.props.buttonText) \o <<"</button>">>
            ELSE << >>)
        \o <<"\n", "      </div>", "\n", "    </section>">>

\* case 'hero'
EmitHero(component) ==
    <<"    <section class=\"hero\">", "\n",
      "      <div class=\"hero-content\">", "\n",
      "        <h1 class=\"hero-title\">">>
        \o Text(StrProp(component, "title", "")) \o <<"</h1>", "\n",
      "        <p class=\"hero-subtitle\">">>
        \o Text(StrProp(component, "subtitle", "")) \o <<"</p>", "\n",
      "        ">>
        \o (IF StrProp(component, "buttonText", "") # ""
            THEN <<"<button class=\"hero-button\">",
                   component.props.buttonText, "</button>">>
            ELSE << >>)
        \o <<"\n", "      </div>", "\n", "    </section>">>

\* case 'card'
EmitCard(component) ==
    <<"    <div class=\"card\">", "\n",
      "      <h3 class=\"card-title\">">>
        \o Text(StrProp(component, "title", "")) \o <<"</h3>", "\n",
      "      <p class=\"card-description\">">>
        \o Text(StrProp(component, "description", "")) \o <<"</p>", "\n",
      "    </div>">>

\* case 'grid'
EmitGrid(component) ==
    <<"    <div class=\"grid\" style=\"grid-template-columns: repeat(",
      ToString(NumProp(component, "columns", 1)), ", 1fr); gap: ">>
        \o Text(StrProp(component, "gap", "1rem")) \o <<";\">", "\n">>
        \o (IF Has(component, "children")
            THEN generateVueTemplate(component.children) ELSE << >>)
        \o <<"\n", "    </div>">>

\* A default case that emits nothing for a type it does not know
EmitDefaultEmpty(component) == << >>

\* default:
EmitDefault(component) ==
    <<"    <div class=\"", component.type, "\"><!-- ", component.type,
      " component --></div>">>

\* switch (component.type)
EmitComponent(component) ==
    CASE component.type = "heading" -> EmitHeading(component)
      [] component.type = "text" -> EmitText(component)
      [] component.type = "button" -> EmitButton(component)
      [] component.type = "image" -> EmitImage(component)
      [] component.type = "container" -> EmitContainer(component)
      [] component.type = "hero" -> EmitHero(component)
      [] component.type = "card" -> EmitCard(component)
      [] component.type = "grid" -> EmitGrid(component)
      [] OTHER -> EmitDefault(component)

\* generateVueTemplate without the test for an empty list
generateVueTemplateNoPlaceholder(components) ==
    Join([i \in DOMAIN components |-> EmitComponent(components[i])], <<"\n">>)

generateVueTemplate(components) ==
    IF components = << >> THEN <<EmptyPagePlaceholder>>
    ELSE Join([i \in DOMAIN components |-> EmitComponent(components[i])], <<"\n">>)

\* A container or grid whose children field holds a truthy value that is no
\* array (a number, a string) is written with the field scalarChildren in place
\* of children: generateVueTemplate(component.children) then passes the two
\* tests of its first line and calls .map on the value, a TypeError.
RECURSIVE generateVueTemplateThrows(_)
generateVueTemplateThrows(components) ==
    \E i \in DOMAIN components :
        /\ components[i].type \in {"container", "grid"}
        /\ \/ Has(components[i], "scalarChildren")
           \/ /\ Has(components[i], "children")
              /\ generateVueTemplateThrows(components[i].children)

-----------------------------------------------------------------------------
(* generateVuePageComponent *)

\* name.replace(/\s+/g, '')
StripSpaces(name) == SelectSeq(name, LAMBDA c : ~IsSpace(c))

RECURSIVE DashSpaces(_)
\* name.replace(/\s+/g, '-'): each maximal run of white space becomes one hyphen
DashSpaces(name) ==
    IF name = << >> THEN << >>
    ELSE IF IsSpace(Head(name))
         THEN IF Len(name) >= 2 /\ IsSpace(name[2])
              THEN DashSpaces(Tail(name))
              ELSE <<"-">> \o DashSpaces(Tail(name))
         ELSE <<Head(name)>> \o DashSpaces(Tail(name))

\* page.content?.components || []
PageComponents(page) ==
    IF Has(page, "content") /\ Has(page.content, "components")
    THEN page.content.components ELSE << >>

\* page.content?.seo?.title || page.name
PageTitle(page) ==
    IF Has(page, "content") /\ Has(page.content, "seo")
          /\ Has(page.content.seo, "title") /\ page.content.seo.title # ""
    THEN <<page.content.seo.title>> ELSE page.name

\* `${page.content?.seo?.description}`: a template literal turns undefined into
\* the text 'undefined'
PageDescriptionText(page) ==
    IF Has(page, "content") /\ Has(page.content, "seo")
          /\ Has(page.content.seo, "description")
    THEN Text(page.content.seo.description) ELSE <<"undefined">>

\* page.content?.styles
PageStyles(page) ==
    IF Has(page, "content") /\ Has(page.content, "styles")
    THEN [defined |-> TRUE, entries |-> page.content.styles]
    ELSE [defined |-> FALSE, entries |-> << >>]

TemplateHead == "<template>\n  <div class=\"page-"
TemplateFoot == "\n  </div>\n</template>\n\n<script>\nexport default {\n  name: '"
ScriptData == "',\n  data() {\n    return {\n      // Page data\n    }\n  },\n  methods: {\n    // Page methods\n  },\n  mounted() {\n    // Set page title\n    document.title = '"
TitleEnd == "';\n\n    // Set meta description\n    if ('"
GuardEnd == "') {\n      const metaDesc = document.querySelector('meta[name=\"description\"]');\n      if (metaDesc) {\n        metaDesc.content = '"
UpdateEnd == "';\n      } else {\n        const meta = document.createElement('meta');\n        meta.name = 'description';\n        meta.content = '"
CreateEnd == "';\n        document.getElementsByTagName('head')[0].appendChild(meta);\n      }\n    }\n  }\n}\n</script>\n\n<style scoped>\n"
StyleFoot == "\n</style>"

generateVuePageComponent(page, app) ==
    <<TemplateHead>> \o DashSpaces(toLowerCase(page.name)) \o <<"\">\n">>
        \o generateVueTemplate(PageComponents(page))
        \o <<TemplateFoot>> \o StripSpaces(page.name)
        \o <<ScriptData>> \o PageTitle(page) \o <<" | ", app.name>>
        \o <<TitleEnd>> \o PageDescriptionText(page)
        \o <<GuardEnd>> \o PageDescriptionText(page)
        \o <<UpdateEnd>> \o PageDescriptionText(page)
        \o <<CreateEnd>> \o generateVueStyles(PageStyles(page))
        \o <<StyleFoot>>

\* What the emitted mounted() hook does when the browser runs it: it assigns
\* document.title, and it sets (or creates) the description meta tag when the
\* string literal of its if statement is truthy, that is, not the empty string
Mounted(out) ==
    LET i == CHOOSE a \in DOMAIN out : out[a] = ScriptData
        j == CHOOSE a \in DOMAIN out : out[a] = TitleEnd
        k == CHOOSE a \in DOMAIN out : out[a] = GuardEnd
        l == CHOOSE a \in DOMAIN out : out[a] = UpdateEnd
    IN [title |-> SubSeq(out, i + 1, j - 1),
        setsDescription |-> SubSeq(out, j + 1, k - 1) # << >>,
        description |-> SubSeq(out, k + 1, l - 1)]

-----------------------------------------------------------------------------
(* generateVueCustomComponent and generateVueApp *)

\* A custom component is [name |-> characters] with, when the document carries
\* them, template (a string) and styles (entries); its props are absent or {}.
generateVueCustomComponent(component) ==
    <<"<template>\n  <div class=\"custom-">> \o toLowerCase(component.name)
        \o <<"\">\n    ">>
        \o (IF Has(component, "template") /\ component.template # ""
            THEN <<component.template>>
            ELSE <<"<!-- Custom component template -->">>)
        \o <<"\n  </div>\n</template>\n\n<script>\nexport default {\n  name: '">>
        \o component.name
        \o <<"',\n  props: ", "{}",
             ",\n  data() {\n    return {\n      // Component data\n    }\n  }\n}\n</script>\n\n<style scoped>\n">>
        \o generateVueStyles(IF Has(component, "styles")
                             THEN [defined |-> TRUE, entries |-> component.styles]
                             ELSE [defined |-> FALSE, entries |-> << >>])
        \o <<"\n</style>">>

\* vueApp[key] = value: a JavaScript object holds one value per key
Put(obj, key, value) ==
    [k \in DOMAIN obj \cup {key} |-> IF k = key THEN value ELSE obj[k]]

\* A routes element that uses the page name as it is
RouteEntryUnstripped(page) ==
    <<"  {\n    path: '", page.path, "',\n    name: '">> \o page.name
        \o <<"',\n    component: () => import('./views/">> \o page.name
        \o <<".vue')\n  }">>

\* One element of the routes array of src/main.js
RouteEntry(page) ==
    <<"  {\n    path: '", page.path, "',\n    name: '">> \o StripSpaces(page.name)
        \o <<"',\n    component: () => import('./views/">> \o StripSpaces(page.name)
        \o <<".vue')\n  }">>

MainHead == "import { createApp } from 'vue'\nimport { createRouter, createWebHistory } from 'vue-router'\nimport App from './App.vue'\n\nconst routes = [\n"
MainFoot == "\n]\n\nconst router = createRouter({\n  history: createWebHistory(),\n  routes\n})\n\ncreateApp(App).use(router).mount('#app')"

\* 'src/main.js'
MainJs(pages) ==
    <<MainHead>> \o Join([i \in DOMAIN pages |-> RouteEntry(pages[i])], <<",\n">>)
        \o <<MainFoot>>

\* app.theme?.key || dflt
ThemeOr(app, key, dflt) ==
    IF Has(app, "theme") /\ Has(app.theme, key) /\ app.theme[key] # ""
    THEN app.theme[key] ELSE dflt

\* An App.vue that carries the status the app document has at the call
AppVueOfStatus(app) ==
    <<"<template>\n  <div id=\"app\">\n    <router-view />\n  </div>\n</template>\n",
      IF Has(app, "status") THEN app.status ELSE "">>

\* 'src/App.vue'
AppVue(app) ==
    <<"<template>\n  <div id=\"app\">\n    <router-view />\n  </div>\n</template>\n\n<script>\nexport default {\n  name: 'App'\n}\n</script>\n\n<style>\nbody {\n  margin: 0;\n  font-family: ",
      ThemeOr(app, "fontFamily", "Inter"),
      ", -apple-system, BlinkMacSystemFont, sans-serif;\n  background-color: ",
      ThemeOr(app, "backgroundColor", "#ffffff"),
      ";\n  color: ", ThemeOr(app, "textColor", "#1a1a1a"),
      ";\n}\n\n* {\n  box-sizing: border-box;\n}\n</style>">>

\* The key of a page's file
ViewKey(page) == <<"src/views/">> \o StripSpaces(page.name) \o <<".vue">>

\* The key of a page's file when the name is used as it is
ViewKeyUnstripped(page) == <<"src/views/">> \o page.name \o <<".vue">>

\* The key of a custom component's file
ComponentKey(component) == <<"src/components/">> \o component.name \o <<".vue">>

RECURSIVE WithPages(_, _, _)
\* pages.forEach(page => { vueApp[`src/views/${componentName}.vue`] = ... })
WithPages(vueApp, pages, app) ==
    IF pages = << >> THEN vueApp
    ELSE WithPages(Put(vueApp, ViewKey(Head(pages)),
                       generateVuePageComponent(Head(pages), app)),
                   Tail(pages), app)

RECURSIVE WithComponents(_, _)
\* components.forEach(component => { vueApp[`src/components/${...}.vue`] = ... })
WithComponents(vueApp, components) ==
    IF components = << >> THEN vueApp
    ELSE WithComponents(Put(vueApp, ComponentKey(Head(components)),
                            generateVueCustomComponent(Head(components))),
                        Tail(components))

\* A generateVueApp that never raises
generateVueAppNeverThrows(app, pages, components) == FALSE

\* generateVueApp raises a TypeError: page.name.replace or
\* component.name.toLowerCase on an absent name, or a template that throws
generateVueAppThrows(app, pages, components) ==
    \/ \E i \in DOMAIN pages :
          \/ ~Has(pages[i], "name")
          \/ generateVueTemplateThrows(PageComponents(pages[i]))
    \/ \E i \in DOMAIN components : ~Has(components[i], "name")

\* The file map: a function from file path to content.  The value of
\* 'package.json' is the manifest, here its name field and version.
generateVueApp(app, pages, components, functions) ==
    LET shell == [k \in {<<"package.json">>, <<"src/main.js">>, <<"src/App.vue">>} |->
                    IF k = <<"package.json">> THEN <<app.subdomain, "1.0.0">>
                    ELSE IF k = <<"src/main.js">> THEN MainJs(pages)
                    ELSE AppVue(app)]
    IN WithComponents(WithPages(shell, pages, app), components)

-----------------------------------------------------------------------------
(* Component nodes used in the stored pages and in the generator calls *)

\* {type: "heading", props: {level: 2, text: "Hi"}}
HeadingHi == [type |-> "heading", props |-> [level |-> 2, text |-> "Hi"]]
TextT1 == [type |-> "text", props |-> [content |-> "t1"]]
Mystery == [type |-> "mystery"]

\* {type: "container", props: {className: "c"}, children: 5}: a node that
\* validateComponent accepts, as it looks at type and props only
BrokenContainer ==
    [type |-> "container", props |-> [className |-> "c"], scalarChildren |-> 5]

-----------------------------------------------------------------------------
(* The document store and the deploy router *)

Users == {"u1", "u2"}

\* The apps of the store; "a0" is an id no app has
AppIds == {"a1", "a2"}
RequestAppIds == AppIds \cup {"a0"}

HomePage ==
    [name |-> <<"H","o","m","e">>, path |-> "/", isHome |-> TRUE,
     content |-> [components |-> << >>,
                  seo |-> [title |-> "Home", description |-> ""]]]

AboutPage ==
    [name |-> <<"A","b","o","u","t">>, path |-> "/about", isHome |-> FALSE,
     content |-> [components |-> <<HeadingHi>>,
                  seo |-> [title |-> "About", description |-> "Desc"]]]

\* A page after PUT /:appId/pages/:pageId stored BrokenContainer in its content
BrokenPage ==
    [name |-> <<"B","a","d">>, path |-> "/bad", isHome |-> FALSE,
     content |-> [components |-> <<BrokenContainer>>,
                  seo |-> [title |-> "Bad", description |-> ""]]]

\* The store without a deployment: two apps as POST /api/apps creates them
\* (status 'draft'), one of each user
InitialApps ==
    [a \in AppIds |->
        [userId |-> IF a = "a1" THEN "u1" ELSE "u2",
         name |-> IF a = "a1" THEN "Shop" ELSE "Blog",
         subdomain |-> IF a = "a1" THEN "shop" ELSE "blog",
         status |-> "draft", lastDeployment |-> "null", deploymentUrl |-> "null"]]

\* The tooltip as it is mounted
TooltipInit ==
    /\ isVisible = FALSE
    /\ showTimer = 0
    /\ hideTimer = 0
    /\ timers = {}
    /\ nextTimer = 1
    /\ lastEvent = "none"

\* A location: the name of its route and the redirect query it carries
Location(name, redirect) == [name |-> name, redirect |-> redirect]

\* The auth store, the loading indicator and the router as the page loads
NavInit ==
    /\ isInitializing = TRUE
    /\ authUser = "null"
    /\ userProfile = "null"
    /\ isLoading = FALSE
    /\ navPc = "idle"
    /\ navTo = Location("none", "none")
    /\ currentRoute = Location("none", "none")
    /\ navLog = "none"

\* The layers of the ui store as the store is created
UIInit ==
    /\ isSearchOpen = FALSE
    /\ searchQuery = ""
    /\ isCommandPaletteOpen = FALSE
    /\ modals = << >>
    /\ sidebars = << >>
    /\ confirmDialog = "null"
    /\ uiNextId = 1
    /\ lastKey = "none"

\* The notifications of the ui store as the store is created
NoteInit ==
    /\ notifications = << >>
    /\ noteTimers = {}
    /\ noteNextId = 1
    /\ lastTimer = 0

\* The browser side untouched
FrontIdle == TooltipInit /\ NavInit /\ UIInit /\ NoteInit

\* No request of the apps and builder routers was made
NoReply == [user |-> "none", app |-> 0, code |-> 0, path |-> << >>]

\* The apps and pages collections as the deploy router and the generator
\* calls leave them: untouched
BuilderIdle ==
    /\ appDocs = << >>
    /\ pageDocs = << >>
    /\ inflight = {}
    /\ reply = NoReply

NoResponse == [code |-> 0, deploymentId |-> <<"none", 0>>, status |-> "none"]

\* The store as the generator calls leave it: untouched
StoreIdle ==
    /\ apps = InitialApps
    /\ pagesOf = [a \in AppIds |-> << >>]
    /\ componentsOf = [a \in AppIds |-> << >>]
    /\ deployments = << >>
    /\ tasks = << >>
    /\ response = NoResponse
    /\ BuilderIdle
    /\ FrontIdle

\* The server side and the generator calls untouched
BackIdle ==
    /\ apps = InitialApps
    /\ pagesOf = [a \in AppIds |-> << >>]
    /\ componentsOf = [a \in AppIds |-> << >>]
    /\ deployments = << >>
    /\ tasks = << >>
    /\ response = NoResponse
    /\ BuilderIdle
    /\ emitArg = << >>
    /\ emitOut = << >>
    /\ emitPc = "idle"

backVars == <<apps, pagesOf, componentsOf, deployments, tasks, response,
              builderVars, emitVars>>

\* Firestore document id of the i-th deployment document (collection.add)
DocId(i) == <<"doc", i>>

\* generateDeploymentId(): `deploy_${uuidv4()}`, a fresh value each call
DeployId(i) == <<"deploy", i>>

\* The ids a request may carry in :deploymentId
RequestIds ==
    {DocId(i) : i \in 1..(MaxDeployments + 1)}
    \cup {DeployId(i) : i \in 1..(MaxDeployments + 1)}

\* getDocument(COLLECTIONS.DEPLOYMENTS, id) finds a document
Found(id) == id[1] = "doc" /\ id[2] \in DOMAIN deployments

\* checkAppOwnership: 404 for no app, 403 for another user's app, else 0
Ownership(user, appId) ==
    IF appId \notin DOMAIN apps THEN 404
    ELSE IF apps[appId].userId # user THEN 403
    ELSE 0

\* validateAppForDeployment throws 400
ValidationFails(appId) ==
    \/ pagesOf[appId] = << >>
    \/ \A i \in DOMAIN pagesOf[appId] : ~pagesOf[appId][i].isHome

Respond(code) == [code |-> code, deploymentId |-> <<"none", 0>>, status |-> "none"]

\* The record of a handler that waits for the build before it answers
deploymentDataBuilt(deploymentId, appId, userId) ==
    [id |-> deploymentId, appId |-> appId, userId |-> userId,
     environment |-> "production", status |-> "success",
     url |-> apps[appId].subdomain,
     files |-> generateVueApp(apps[appId], pagesOf[appId], componentsOf[appId], << >>),
     pagesCount |-> Len(pagesOf[appId]),
     componentsCount |-> Len(componentsOf[appId]),
     rollbackFrom |-> <<"none", 0>>, isDeleted |-> FALSE, error |-> FALSE]

\* deploymentData.  The record has neither rollbackFrom, isDeleted nor error
\* yet: <<"none", 0>> and FALSE stand for the absent fields.
deploymentData(deploymentId, appId, userId) ==
    [id |-> deploymentId, appId |-> appId, userId |-> userId,
     environment |-> "production", status |-> "building",
     url |-> apps[appId].subdomain,
     files |-> generateVueApp(apps[appId], pagesOf[appId], componentsOf[appId], << >>),
     pagesCount |-> Len(pagesOf[appId]),
     componentsCount |-> Len(componentsOf[appId]),
     rollbackFrom |-> <<"none", 0>>, isDeleted |-> FALSE, error |-> FALSE]

\* POST /api/deploy/:appId; createDocument succeeds or throws
Deploy(user, appId) ==
    /\ emitPc = "idle"
    /\ Len(deployments) < MaxDeployments
    /\ LET n == Len(deployments) + 1
       IN IF Ownership(user, appId) # 0
          THEN /\ response' = Respond(Ownership(user, appId))
               /\ UNCHANGED <<deployments, tasks>>
          ELSE IF ValidationFails(appId)
          THEN /\ response' = Respond(400)
               /\ UNCHANGED <<deployments, tasks>>
          ELSE IF generateVueAppThrows(apps[appId], pagesOf[appId], componentsOf[appId])
          THEN /\ response' = Respond(500)
               /\ UNCHANGED <<deployments, tasks>>
          ELSE \/ /\ response' = Respond(500)
                  /\ UNCHANGED <<deployments, tasks>>
               \/ /\ deployments' = Append(deployments,
                                            deploymentData(DeployId(n), appId, user))
                  /\ tasks' = Append(tasks, "scheduled")
                  /\ response' = [code |-> 202, deploymentId |-> DeployId(n),
                                  status |-> "building"]
    /\ UNCHANGED <<apps, pagesOf, componentsOf, builderVars, frontVars, emitVars>>

\* updateDocument(COLLECTIONS.DEPLOYMENTS, deploymentDocId, {status, ...})
SetStatus(i, status, error) ==
    [deployments EXCEPT ![i].status = status, ![i].error = error]

\* The setTimeout callback starts: the first statement of its try block.
\* ok: whether updateDocument succeeds; when it throws, control is in catch.
TimerFires(i, ok) ==
    /\ i \in DOMAIN tasks /\ tasks[i] = "scheduled"
    /\ IF ok
       THEN /\ deployments' = SetStatus(i, "success", deployments[i].error)
            /\ tasks' = [tasks EXCEPT ![i] = "updateApp"]
       ELSE /\ tasks' = [tasks EXCEPT ![i] = "catch"]
            /\ UNCHANGED deployments
    /\ UNCHANGED <<apps, pagesOf, componentsOf, response, builderVars, frontVars, emitVars>>

\* The second statement of the try block: the update of the app document
TaskUpdatesApp(i, ok) ==
    /\ i \in DOMAIN tasks /\ tasks[i] = "updateApp"
    /\ IF ok
       THEN /\ apps' = [apps EXCEPT ![deployments[i].appId].status = "published",
                                    ![deployments[i].appId].lastDeployment = "set",
                                    ![deployments[i].appId].deploymentUrl =
                                        deployments[i].url]
            /\ tasks' = [tasks EXCEPT ![i] = "done"]
       ELSE /\ tasks' = [tasks EXCEPT ![i] = "catch"]
            /\ UNCHANGED apps
    /\ UNCHANGED <<pagesOf, componentsOf, deployments, response, builderVars, frontVars, emitVars>>

\* The catch block: the update to 'failed'; when it throws too, the callback
\* ends with the rejection unhandled
TaskCatches(i, ok) ==
    /\ i \in DOMAIN tasks /\ tasks[i] = "catch"
    /\ IF ok
       THEN deployments' = SetStatus(i, "failed", TRUE)
       ELSE UNCHANGED deployments
    /\ tasks' = [tasks EXCEPT ![i] = "done"]
    /\ UNCHANGED <<apps, pagesOf, componentsOf, response, builderVars, frontVars, emitVars>>

\* A rollback record that takes the counts of its metadata anew
rollbackDataNoMetadata(deployment, rollbackId, userId, deploymentId) ==
    [deployment EXCEPT
        !.id = rollbackId, !.userId = userId, !.status = "success",
        !.rollbackFrom = deploymentId, !.isDeleted = FALSE, !.error = FALSE,
        !.pagesCount = 0, !.componentsCount = 0]

\* rollbackData: environment, url, files and metadata of the source record, a
\* new id, status 'success', rollbackFrom; neither error nor isDeleted
rollbackData(deployment, rollbackId, userId, deploymentId) ==
    [deployment EXCEPT
        !.id = rollbackId, !.userId = userId, !.status = "success",
        !.rollbackFrom = deploymentId, !.isDeleted = FALSE, !.error = FALSE]

\* POST /api/deploy/:appId/rollback/:deploymentId; createDocument and the
\* updateDocument after it each succeed or throw
Rollback(user, appId) ==
    /\ emitPc = "idle"
    /\ Len(deployments) < MaxDeployments
    /\ LET n == Len(deployments) + 1
       IN IF Ownership(user, appId) # 0
          THEN /\ response' = Respond(Ownership(user, appId))
               /\ UNCHANGED <<deployments, tasks, apps>>
          ELSE \E id \in RequestIds :
               IF ~Found(id) \/ deployments[id[2]].appId # appId
               THEN /\ response' = Respond(404)
                    /\ UNCHANGED <<deployments, tasks, apps>>
               ELSE IF deployments[id[2]].status # "success"
               THEN /\ response' = Respond(400)
                    /\ UNCHANGED <<deployments, tasks, apps>>
               ELSE \/ /\ response' = Respond(500)
                       /\ UNCHANGED <<deployments, tasks, apps>>
                    \/ /\ deployments' = Append(deployments,
                            rollbackData(deployments[id[2]], DeployId(n), user, id))
                       /\ tasks' = Append(tasks, "none")
                       /\ \/ /\ apps' = [apps EXCEPT ![appId].lastDeployment = "set"]
                             /\ response' = [code |-> 200, deploymentId |-> DeployId(n),
                                             status |-> "success"]
                          \/ /\ response' = Respond(500)
                             /\ UNCHANGED apps
    /\ UNCHANGED <<pagesOf, componentsOf, builderVars, frontVars, emitVars>>

\* DELETE /api/deploy/:appId/deployments/:deploymentId; updateDocument succeeds
\* or throws
DeleteDeployment(user, appId) ==
    /\ emitPc = "idle"
    /\ IF Ownership(user, appId) # 0
       THEN /\ response' = Respond(Ownership(user, appId))
            /\ UNCHANGED deployments
       ELSE \E id \in RequestIds :
            IF ~Found(id) \/ deployments[id[2]].appId # appId
            THEN /\ response' = Respond(404)
                 /\ UNCHANGED deployments
            ELSE \/ /\ response' = Respond(500)
                    /\ UNCHANGED deployments
                 \/ /\ deployments' = [deployments EXCEPT ![id[2]].isDeleted = TRUE]
                    /\ response' = Respond(200)
    /\ UNCHANGED <<apps, pagesOf, componentsOf, tasks, builderVars, frontVars, emitVars>>

\* The store before the first deploy request: the two apps, each with the pages
\* and custom components earlier builder requests left
Init ==
    /\ apps = InitialApps
    /\ pagesOf \in {[a \in AppIds |-> IF a = "a1" THEN ps ELSE << >>] :
                      ps \in {<<HomePage>>, <<AboutPage>>, <<HomePage, AboutPage>>,
                              <<HomePage, BrokenPage>>}}
    /\ componentsOf = [a \in AppIds |-> << >>]
    /\ deployments = << >>
    /\ tasks = << >>
    /\ response = NoResponse
    /\ BuilderIdle
    /\ FrontIdle
    /\ emitArg = << >>
    /\ emitOut = << >>
    /\ emitPc = "idle"

DeployRequest == \E u \in Users, a \in RequestAppIds : Deploy(u, a)

TimerStep == \E i \in DOMAIN tasks, ok \in BOOLEAN : TimerFires(i, ok)

AppUpdateStep == \E i \in DOMAIN tasks, ok \in BOOLEAN : TaskUpdatesApp(i, ok)

CatchStep == \E i \in DOMAIN tasks, ok \in BOOLEAN : TaskCatches(i, ok)

RollbackRequest == \E u \in Users, a \in RequestAppIds : Rollback(u, a)

DeleteRequest == \E u \in Users, a \in RequestAppIds : DeleteDeployment(u, a)

Next ==
    \/ DeployRequest
    \/ TimerStep
    \/ AppUpdateStep
    \/ CatchStep
    \/ RollbackRequest
    \/ DeleteRequest

Spec == Init /\ [][Next]_vars

\* The deferred callback of a scheduled timer runs, and each await in it returns
FairSpec ==
    Spec /\ WF_vars(TimerStep) /\ WF_vars(AppUpdateStep) /\ WF_vars(CatchStep)

-----------------------------------------------------------------------------
(* The apps router and the pages of the builder router *)

\* user.subscription?.appsLimit || 3
DefaultAppsLimit == 3

\* The users collection: u1 with subscription.appsLimit 2 (PUT /api/users/:id
\* sets any limit), u2 with a subscription that has none
UserDocs ==
    [u \in Users |->
        IF u = "u1" THEN [subscription |-> [appsLimit |-> 2]]
        ELSE [subscription |-> [plan |-> "free"]]]

\* const appsLimit = user.subscription?.appsLimit || 3
appsLimit(userId) ==
    LET user == UserDocs[userId]
    IN IF Has(user, "subscription") /\ Has(user.subscription, "appsLimit")
             /\ user.subscription.appsLimit # 0
       THEN user.subscription.appsLimit ELSE DefaultAppsLimit

\* The filter { field: 'isDeleted', operator: '==', value: false }: Firestore
\* returns no document that lacks the field
IsDeletedFalse(doc) == Has(doc, "isDeleted") /\ doc.isDeleted = FALSE

\* validateAppLimits: 403 when the user's apps with isDeleted == false are as
\* many as the limit, else 0
validateAppLimits(userId) ==
    IF Cardinality({i \in DOMAIN appDocs :
                      appDocs[i].userId = userId /\ IsDeletedFalse(appDocs[i])})
          >= appsLimit(userId)
    THEN 403 ELSE 0

\* A check of the app's existence alone
checkAppOwnershipExistsOnly(userId, id) ==
    IF id \notin DOMAIN appDocs THEN 404 ELSE 0

\* checkAppOwnership of the apps and builder routers: 404, 403, else 0
checkAppOwnership(userId, id) ==
    IF id \notin DOMAIN appDocs THEN 404
    ELSE IF appDocs[id].userId # userId THEN 403
    ELSE 0

\* The :id and :appId of a request: the ids of the stored apps and the next
\* one, no app's id
RequestApps == 1..(Len(appDocs) + 1)

\* The :pageId of a request: the ids of the stored pages and 0, no page's id
RequestPages == 0..Len(pageDocs)

\* The path of a request body, trimmed and not empty
RequestPaths == {<<"/">>, <<"a">>, <<"/", "a">>}

\* The path stored as the request gives it
NormalizePathAsGiven(path) == path

\* path.startsWith('/') ? path : `/${path}`
NormalizePath(path) == IF path[1] = "/" THEN path ELSE <<"/">> \o path

\* defaultPageData of POST /api/apps: it has no isDeleted field
defaultPageData(appId) == [appId |-> appId, path |-> <<"/">>, isHome |-> TRUE]

\* pageData of POST /:appId/pages
pageData(appId, path) ==
    [appId |-> appId, path |-> NormalizePath(path), isHome |-> path = <<"/">>,
     isDeleted |-> FALSE]

\* The answer of a step to the user of the token and the app of the URL (0 when
\* the URL names none), with the path of the request body that was read
ReplyTo(user, app, code, path) ==
    [user |-> user, app |-> app, code |-> code, path |-> path]

Reply(user, app, code) == ReplyTo(user, app, code, << >>)

\* A request that is past its checks and waits for its writes
Pending(op, user, app, reqApp) ==
    [slot |-> CHOOSE k \in 1..MaxInflight : \A r \in inflight : r.slot # k,
     op |-> op, user |-> user, app |-> app, reqApp |-> reqApp]

CanWait == Cardinality(inflight) < MaxInflight

\* queryDocuments(COLLECTIONS.PAGES, [appId == appId, isDeleted == false]): the
\* page query of GET /:appId/pages, validateAppForDeployment and duplication
queryPages(appId) ==
    SelectSeq(pageDocs, LAMBDA p : p.appId = appId /\ IsDeletedFalse(p))

\* validateAppForDeployment on the pages collection: 400 when the query
\* returns no page or no page with isHome, else 0
validateAppForDeployment(appId) ==
    IF queryPages(appId) = << >> THEN 400
    ELSE IF \A i \in DOMAIN queryPages(appId) : ~queryPages(appId)[i].isHome THEN 400
    ELSE 0

\* appData of POST /api/apps: status 'draft', stats.totalPages 0
appData(userId) ==
    [userId |-> userId, isDeleted |-> FALSE, status |-> "draft", totalPages |-> 0]

\* duplicateAppData: {...originalApp} keeps userId, isDeleted and
\* stats.totalPages of the app that checkAppOwnership read; status 'draft'
duplicateAppData(originalApp) == [originalApp EXCEPT !.status = "draft"]

\* The pages a duplicate copies: those of the original with isDeleted == false,
\* under the id of the new app
DuplicatePages(original, duplicateAppId) ==
    LET originalPages ==
            SelectSeq(pageDocs, LAMBDA p : p.appId = original /\ IsDeletedFalse(p))
    IN [i \in DOMAIN originalPages |->
           [originalPages[i] EXCEPT !.appId = duplicateAppId]]

\* POST /api/apps up to the return of validateAppLimits
CreateAppCheck(user) ==
    /\ emitPc = "idle"
    /\ IF validateAppLimits(user) # 0
       THEN /\ reply' = Reply(user, 0, 403)
            /\ UNCHANGED inflight
       ELSE /\ CanWait
            /\ inflight' = inflight \cup {Pending("createApp", user, 0, appData(user))}
            /\ reply' = Reply(user, 0, 0)
    /\ UNCHANGED <<appDocs, pageDocs>>

\* POST /api/apps from createDocument(COLLECTIONS.APPS, appData) on
CreateAppWrite(r) ==
    /\ r \in inflight /\ r.op = "createApp"
    /\ Len(appDocs) < MaxAppDocs /\ Len(pageDocs) < MaxPageDocs
    /\ appDocs' = Append(appDocs, appData(r.user))
    /\ pageDocs' = Append(pageDocs, defaultPageData(Len(appDocs) + 1))
    /\ reply' = Reply(r.user, 0, 201)
    /\ inflight' = inflight \ {r}

\* POST /api/apps/:id/duplicate up to the return of validateAppLimits
DuplicateCheck(user, id) ==
    /\ emitPc = "idle"
    /\ IF checkAppOwnership(user, id) # 0
       THEN /\ reply' = Reply(user, id, checkAppOwnership(user, id))
            /\ UNCHANGED inflight
       ELSE IF validateAppLimits(user) # 0
       THEN /\ reply' = Reply(user, id, 403)
            /\ UNCHANGED inflight
       ELSE /\ CanWait
            /\ inflight' = inflight
                  \cup {Pending("duplicate", user, id, appDocs[id])}
            /\ reply' = Reply(user, id, 0)
    /\ UNCHANGED <<appDocs, pageDocs>>

\* POST /api/apps/:id/duplicate from createDocument on
DuplicateWrite(r) ==
    /\ r \in inflight /\ r.op = "duplicate"
    /\ Len(appDocs) < MaxAppDocs
    /\ Len(pageDocs) + Len(DuplicatePages(r.app, Len(appDocs) + 1)) <= MaxPageDocs
    /\ appDocs' = Append(appDocs, duplicateAppData(r.reqApp))
    /\ pageDocs' = pageDocs \o DuplicatePages(r.app, Len(appDocs) + 1)
    /\ reply' = Reply(r.user, r.app, 201)
    /\ inflight' = inflight \ {r}

\* POST /api/apps, nothing running between its awaits
CreateApp(user) ==
    /\ emitPc = "idle"
    /\ IF validateAppLimits(user) # 0
       THEN /\ reply' = Reply(user, 0, 403)
            /\ UNCHANGED <<appDocs, pageDocs>>
       ELSE /\ Len(appDocs) < MaxAppDocs /\ Len(pageDocs) < MaxPageDocs
            /\ appDocs' = Append(appDocs, appData(user))
            /\ pageDocs' = Append(pageDocs, defaultPageData(Len(appDocs) + 1))
            /\ reply' = Reply(user, 0, 201)
    /\ UNCHANGED inflight

\* POST /api/apps/:id/duplicate, nothing running between its awaits
DuplicateApp(user, id) ==
    /\ emitPc = "idle"
    /\ IF checkAppOwnership(user, id) # 0
       THEN /\ reply' = Reply(user, id, checkAppOwnership(user, id))
            /\ UNCHANGED <<appDocs, pageDocs>>
       ELSE IF validateAppLimits(user) # 0
       THEN /\ reply' = Reply(user, id, 403)
            /\ UNCHANGED <<appDocs, pageDocs>>
       ELSE /\ Len(appDocs) < MaxAppDocs
            /\ Len(pageDocs) + Len(DuplicatePages(id, Len(appDocs) + 1)) <= MaxPageDocs
            /\ appDocs' = Append(appDocs, duplicateAppData(appDocs[id]))
            /\ pageDocs' = pageDocs \o DuplicatePages(id, Len(appDocs) + 1)
            /\ reply' = Reply(user, id, 201)
    /\ UNCHANGED inflight

\* DELETE /api/apps/:id
DeleteApp(user, id) ==
    /\ emitPc = "idle"
    /\ IF checkAppOwnership(user, id) # 0
       THEN /\ reply' = Reply(user, id, checkAppOwnership(user, id))
            /\ UNCHANGED <<appDocs, pageDocs>>
       ELSE /\ appDocs' = [appDocs EXCEPT ![id].isDeleted = TRUE]
            /\ pageDocs' = [i \in DOMAIN pageDocs |->
                              IF pageDocs[i].appId = id
                              THEN Put(pageDocs[i], "isDeleted", TRUE)
                              ELSE pageDocs[i]]
            /\ reply' = Reply(user, id, 200)
    /\ UNCHANGED inflight

\* POST /api/builder/:appId/pages
CreatePage(user, appId) ==
    /\ emitPc = "idle"
    /\ IF checkAppOwnership(user, appId) # 0
       THEN /\ reply' = Reply(user, appId, checkAppOwnership(user, appId))
            /\ UNCHANGED <<pageDocs, appDocs>>
       ELSE \E path \in RequestPaths :
            IF \E i \in DOMAIN pageDocs :
                  /\ pageDocs[i].appId = appId /\ pageDocs[i].path = path
                  /\ IsDeletedFalse(pageDocs[i])
            THEN /\ reply' = ReplyTo(user, appId, 409, path)
                 /\ UNCHANGED <<pageDocs, appDocs>>
            ELSE /\ Len(pageDocs) < MaxPageDocs
                 /\ pageDocs' = Append(pageDocs, pageData(appId, path))
                 /\ appDocs' = [appDocs EXCEPT
                                  ![appId].totalPages = appDocs[appId].totalPages + 1]
                 /\ reply' = ReplyTo(user, appId, 201, path)
    /\ UNCHANGED inflight

\* PUT /api/builder/:appId/pages/:pageId with a path in the body
UpdatePage(user, appId) ==
    /\ emitPc = "idle"
    /\ IF checkAppOwnership(user, appId) # 0
       THEN /\ reply' = Reply(user, appId, checkAppOwnership(user, appId))
            /\ UNCHANGED pageDocs
       ELSE \E pageId \in RequestPages, path \in RequestPaths :
            IF pageId \notin DOMAIN pageDocs \/ pageDocs[pageId].appId # appId
            THEN /\ reply' = Reply(user, appId, 404)
                 /\ UNCHANGED pageDocs
            ELSE /\ pageDocs' = [pageDocs EXCEPT ![pageId].path = NormalizePath(path)]
                 /\ reply' = ReplyTo(user, appId, 200, path)
    /\ UNCHANGED <<appDocs, inflight>>

\* Math.max((totalPages || 1) - 1, 0)
LessOne(totalPages) == IF totalPages = 0 THEN 0 ELSE totalPages - 1

\* DELETE /api/builder/:appId/pages/:pageId
DeletePage(user, appId) ==
    /\ emitPc = "idle"
    /\ IF checkAppOwnership(user, appId) # 0
       THEN /\ reply' = Reply(user, appId, checkAppOwnership(user, appId))
            /\ UNCHANGED <<pageDocs, appDocs>>
       ELSE \E pageId \in RequestPages :
            IF pageId \notin DOMAIN pageDocs \/ pageDocs[pageId].appId # appId
            THEN /\ reply' = Reply(user, appId, 404)
                 /\ UNCHANGED <<pageDocs, appDocs>>
            ELSE IF pageDocs[pageId].isHome
            THEN /\ reply' = Reply(user, appId, 400)
                 /\ UNCHANGED <<pageDocs, appDocs>>
            ELSE /\ pageDocs' = [pageDocs EXCEPT
                                   ![pageId] = Put(pageDocs[pageId], "isDeleted", TRUE)]
                 /\ appDocs' = [appDocs EXCEPT
                                  ![appId].totalPages = LessOne(appDocs[appId].totalPages)]
                 /\ reply' = Reply(user, appId, 200)
    /\ UNCHANGED inflight

\* No app, no page, no request: the users have registered
InitBuilder ==
    /\ appDocs = << >>
    /\ pageDocs = << >>
    /\ inflight = {}
    /\ reply = NoReply
    /\ apps = InitialApps
    /\ pagesOf = [a \in AppIds |-> << >>]
    /\ componentsOf = [a \in AppIds |-> << >>]
    /\ deployments = << >>
    /\ tasks = << >>
    /\ response = NoResponse
    /\ emitArg = << >>
    /\ emitOut = << >>
    /\ emitPc = "idle"
    /\ FrontIdle

BuilderFrame == UNCHANGED <<apps, pagesOf, componentsOf, deployments, tasks,
                            response, emitVars, frontVars>>

\* The user who builds apps in the runs of the builder router; every user
\* makes the requests on those apps
Builders == {"u1"}

CreateAppRequest == (\E u \in Builders : CreateApp(u)) /\ BuilderFrame

DuplicateAppRequest ==
    (\E u \in Users, id \in RequestApps : DuplicateApp(u, id)) /\ BuilderFrame

DeleteAppRequest ==
    (\E u \in Users, id \in RequestApps : DeleteApp(u, id)) /\ BuilderFrame

CreatePageRequest ==
    (\E u \in Users, id \in RequestApps : CreatePage(u, id)) /\ BuilderFrame

UpdatePageRequest ==
    (\E u \in Users, id \in RequestApps : UpdatePage(u, id)) /\ BuilderFrame

DeletePageRequest ==
    (\E u \in Users, id \in RequestApps : DeletePage(u, id)) /\ BuilderFrame

NextBuilder ==
    \/ CreateAppRequest
    \/ DuplicateAppRequest
    \/ CreatePageRequest
    \/ UpdatePageRequest
    \/ DeletePageRequest

SpecBuilder == InitBuilder /\ [][NextBuilder]_vars

\* The apps router with its requests interleaved at their awaits
CreateAppArrives == (\E u \in Users : CreateAppCheck(u)) /\ BuilderFrame

CreateAppProceeds == (\E r \in inflight : CreateAppWrite(r)) /\ BuilderFrame

DuplicateArrives ==
    (\E u \in Users, id \in RequestApps : DuplicateCheck(u, id)) /\ BuilderFrame

DuplicateProceeds == (\E r \in inflight : DuplicateWrite(r)) /\ BuilderFrame

NextApps ==
    \/ CreateAppArrives
    \/ CreateAppProceeds
    \/ DuplicateArrives
    \/ DuplicateProceeds
    \/ DeleteAppRequest

SpecApps == InitBuilder /\ [][NextApps]_vars

\* PUT /api/apps/:id/publish: the pages' isPublished is not in the model
PublishApp(user, id) ==
    /\ emitPc = "idle"
    /\ IF checkAppOwnership(user, id) # 0
       THEN /\ reply' = Reply(user, id, checkAppOwnership(user, id))
            /\ UNCHANGED appDocs
       ELSE /\ appDocs' = [appDocs EXCEPT ![id].status = "published"]
            /\ reply' = Reply(user, id, 200)
    /\ UNCHANGED <<pageDocs, inflight>>

PublishRequest ==
    (\E u \in Users, id \in RequestApps : PublishApp(u, id)) /\ BuilderFrame

\* The requests on apps that may have been deleted
NextSoftDelete ==
    \/ CreateAppRequest
    \/ DeleteAppRequest
    \/ CreatePageRequest
    \/ PublishRequest

SpecSoftDelete == InitBuilder /\ [][NextSoftDelete]_vars

-----------------------------------------------------------------------------
(* The paginated lists GET /api/apps and GET /api/users *)

Min(a, b) == IF a < b THEN a ELSE b

\* queryDocuments with a limit: the first `limit` documents of the ordered
\* matching list
queryDocuments(matching, limit) == SubSeq(matching, 1, Min(limit, Len(matching)))

\* Array.prototype.slice(start, end) for 0 <= start <= end
slice(array, start, end) == SubSeq(array, start + 1, Min(end, Len(array)))

\* The pagination object and the items of a list answer
Paginated(filtered, page, limit) ==
    LET startIndex == (page - 1) * limit
    IN [items |-> slice(filtered, startIndex, startIndex + limit),
        total |-> Len(filtered),
        hasNextPage |-> startIndex + limit < Len(filtered)]

\* GET /api/apps without search: the query is limited to limit * page
listApps(matching, page, limit) ==
    Paginated(queryDocuments(matching, limit * page), page, limit)

\* GET /api/users without search: the query is limited to limit
listUsers(matching, page, limit) ==
    Paginated(queryDocuments(matching, limit), page, limit)

\* The ordered list of all matching documents, each named by its rank
Matching(n) == [i \in 1..n |-> i]

ListCalls ==
    [route : {"apps", "users"}, n : 0..MaxItems, page : 1..MaxPageNo,
     limit : 1..MaxLimit]

InitList ==
    /\ emitArg \in ListCalls
    /\ emitOut = << >>
    /\ emitPc = "ready"
    /\ StoreIdle

ListApps ==
    /\ emitPc = "ready" /\ emitArg.route = "apps"
    /\ emitOut' = listApps(Matching(emitArg.n), emitArg.page, emitArg.limit)
    /\ emitPc' = "done"
    /\ UNCHANGED <<emitArg, storeVars>>

ListUsers ==
    /\ emitPc = "ready" /\ emitArg.route = "users"
    /\ emitOut' = listUsers(Matching(emitArg.n), emitArg.page, emitArg.limit)
    /\ emitPc' = "done"
    /\ UNCHANGED <<emitArg, storeVars>>

NextList == ListApps \/ ListUsers

SpecList == InitList /\ [][NextList]_vars

-----------------------------------------------------------------------------
(* The tooltip component with trigger 'hover' and delays greater than 0 *)

\* setTimeout(callback, delay): a pending timer under a new handle
setTimeout(pending, callback) == pending \cup {[id |-> nextTimer, callback |-> callback]}

\* clearTimeout(handle): no effect when no pending timer has the handle
clearTimeout(pending, handle) == {t \in pending : t.id # handle}

\* show()
show ==
    IF isVisible
    THEN UNCHANGED <<timers, showTimer, nextTimer>>
    ELSE /\ nextTimer <= MaxTimers
         /\ timers' = setTimeout(clearTimeout(timers, hideTimer), "show")
         /\ showTimer' = nextTimer
         /\ nextTimer' = nextTimer + 1

\* hide()
hide ==
    IF ~isVisible
    THEN UNCHANGED <<timers, hideTimer, nextTimer>>
    ELSE /\ nextTimer <= MaxTimers
         /\ timers' = setTimeout(clearTimeout(timers, showTimer), "hide")
         /\ hideTimer' = nextTimer
         /\ nextTimer' = nextTimer + 1

TooltipFrame == UNCHANGED <<backVars, navVars, uiVars, noteVars>>

\* handleMouseEnter: the pointer was outside the trigger
handleMouseEnter ==
    /\ lastEvent # "mouseenter"
    /\ show
    /\ lastEvent' = "mouseenter"
    /\ UNCHANGED <<isVisible, hideTimer>>
    /\ TooltipFrame

\* handleMouseLeave: the pointer was over the trigger
handleMouseLeave ==
    /\ lastEvent = "mouseenter"
    /\ hide
    /\ lastEvent' = "mouseleave"
    /\ UNCHANGED <<isVisible, showTimer>>
    /\ TooltipFrame

\* A pending timer fires and runs its callback
TooltipTimerFires ==
    /\ \E t \in timers :
          /\ timers' = timers \ {t}
          /\ isVisible' = (t.callback = "show")
    /\ UNCHANGED <<showTimer, hideTimer, nextTimer, lastEvent>>
    /\ TooltipFrame

InitTooltip == BackIdle /\ FrontIdle

NextTooltip == handleMouseEnter \/ handleMouseLeave \/ TooltipTimerFires

SpecTooltip == InitTooltip /\ [][NextTooltip]_vars

-----------------------------------------------------------------------------
(* The global navigation guard of the router *)

\* The routes of the table the guard tells apart
RouteNames == {"home", "login", "dashboard", "admin-dashboard", "unauthorized"}

\* to.meta of a route: a flag the table leaves out is undefined, so falsy
Meta(name) ==
    [requiresAuth |-> name \in {"dashboard", "admin-dashboard"},
     requiresGuest |-> name = "login",
     requiresAdmin |-> name = "admin-dashboard"]

\* authStore.isAuthenticated and authStore.isAdmin
isAuthenticated(user) == user # "null"

isAdmin(profile) == profile = "admin"

\* A guard that never checks requiresGuest
GuardNoGuestCheck(to, user, profile) ==
    IF Meta(to.name).requiresAuth /\ ~isAuthenticated(user)
    THEN [log |-> "login", to |-> Location("login", to.name)]
    ELSE IF Meta(to.name).requiresAdmin /\ ~isAdmin(profile)
    THEN [log |-> "unauthorized", to |-> Location("unauthorized", "none")]
    ELSE [log |-> "next", to |-> to]

\* The checks of router.beforeEach after the wait, on the store's user and
\* profile: the argument of next(), and "next" when the navigation is let
\* through.  Route parameters are strings.
Guard(to, user, profile) ==
    IF Meta(to.name).requiresAuth /\ ~isAuthenticated(user)
    THEN [log |-> "login", to |-> Location("login", to.name)]
    ELSE IF Meta(to.name).requiresGuest /\ isAuthenticated(user)
    THEN [log |-> "dashboard", to |-> Location("dashboard", "none")]
    ELSE IF Meta(to.name).requiresAdmin /\ ~isAdmin(profile)
    THEN [log |-> "unauthorized", to |-> Location("unauthorized", "none")]
    ELSE [log |-> "next", to |-> to]

\* router.beforeEach from its checks on: a redirect hides the loading
\* indicator and hands the new location to the router, next() leaves the
\* navigation to the resolution of the route component
Decide(to, user, profile) ==
    /\ navLog' = Guard(to, user, profile).log
    /\ navTo' = Guard(to, user, profile).to
    /\ IF Guard(to, user, profile).log = "next"
       THEN navPc' = "resolving" /\ isLoading' = TRUE
       ELSE navPc' = "redirect" /\ isLoading' = FALSE

\* The router is given a location: the same location as the current one ends
\* the navigation as duplicated (afterEach runs, no guard does); else
\* beforeEach shows the loading indicator and waits for the initialization or
\* goes on to its checks
Enter(to) ==
    IF to = currentRoute
    THEN /\ navPc' = "idle" /\ isLoading' = FALSE
         /\ navLog' = "duplicated" /\ navTo' = to
    ELSE IF isInitializing
    THEN /\ navPc' = "initialize" /\ isLoading' = TRUE
         /\ navLog' = "waiting" /\ navTo' = to
    ELSE Decide(to, authUser, userProfile)

NavFrame == UNCHANGED <<backVars, tooltipVars, uiVars, noteVars>>

\* router.push(to) by the application, no navigation being in progress
Navigate ==
    /\ navPc = "idle"
    /\ \E name \in RouteNames : Enter(Location(name, "none"))
    /\ UNCHANGED <<isInitializing, authUser, userProfile, currentRoute>>
    /\ NavFrame

\* initialize(): the first onAuthStateChanged callback sets user.value
InitializeUser ==
    /\ isInitializing /\ authUser = "null"
    /\ authUser' = "set"
    /\ UNCHANGED <<isInitializing, userProfile, isLoading, navPc, navTo,
                   currentRoute, navLog>>
    /\ NavFrame

\* initialize(): the callback ends (the profile fetched or not, or no user, or
\* Firebase not configured); a guard that waited goes on to its checks
InitializeEnds ==
    /\ isInitializing
    /\ isInitializing' = FALSE
    /\ \E role \in {"null", "user", "admin"} :
          /\ authUser = "null" => role = "null"
          /\ userProfile' = role
          /\ IF navPc = "initialize"
             THEN Decide(navTo, authUser, role)
             ELSE UNCHANGED <<navPc, navTo, navLog, isLoading>>
    /\ UNCHANGED <<authUser, currentRoute>>
    /\ NavFrame

\* The router takes up the location a guard redirected to
RedirectRuns ==
    /\ navPc = "redirect"
    /\ Enter(navTo)
    /\ UNCHANGED <<isInitializing, authUser, userProfile, currentRoute>>
    /\ NavFrame

\* The route component is resolved: the navigation is confirmed and
\* router.afterEach hides the loading indicator
NavigationCompletes ==
    /\ navPc = "resolving"
    /\ currentRoute' = navTo
    /\ isLoading' = FALSE
    /\ navPc' = "idle"
    /\ navLog' = "completed"
    /\ UNCHANGED <<isInitializing, authUser, userProfile, navTo>>
    /\ NavFrame

\* The import of the route component fails: router.onError
NavigationFails ==
    /\ navPc = "resolving"
    /\ isLoading' = FALSE
    /\ navPc' = "idle"
    /\ navLog' = "error"
    /\ UNCHANGED <<isInitializing, authUser, userProfile, navTo, currentRoute>>
    /\ NavFrame

\* After the initialization: login() or a later onAuthStateChanged sets
\* user.value, fetchUserProfile sets the profile, logout() clears both
AuthChanges ==
    /\ ~isInitializing
    /\ \/ authUser = "null" /\ authUser' = "set" /\ UNCHANGED userProfile
       \/ authUser = "set" /\ userProfile' \in {"user", "admin"}
            /\ userProfile' # userProfile /\ UNCHANGED authUser
       \/ authUser = "set" /\ authUser' = "null" /\ userProfile' = "null"
    /\ UNCHANGED <<isInitializing, isLoading, navPc, navTo, currentRoute, navLog>>
    /\ NavFrame

InitNav == BackIdle /\ FrontIdle

NextNav ==
    \/ Navigate
    \/ InitializeUser
    \/ InitializeEnds
    \/ RedirectRuns
    \/ NavigationCompletes
    \/ NavigationFails
    \/ AuthChanges

SpecNav == InitNav /\ [][NextNav]_vars

-----------------------------------------------------------------------------
(* The layers of the UI store.  A modal or sidebar is its id; ids are given
   in the order of opening, and 0 stands for a call without id. *)

topModal == modals[Len(modals)]

activeSidebar == sidebars[Len(sidebars)]

hasModals == Len(modals) > 0

hasSidebars == Len(sidebars) > 0

\* findIndex: the first index of the id, 0 when there is none
findIndex(list, id) ==
    IF \E i \in 1..Len(list) : list[i] = id
    THEN CHOOSE i \in 1..Len(list) :
            list[i] = id /\ \A j \in 1..(i - 1) : list[j] # id
    ELSE 0

\* splice(index, 1)
splice(list, index) ==
    SubSeq(list, 1, index - 1) \o SubSeq(list, index + 1, Len(list))

\* pop(): nothing to drop from an empty array
pop(list) == SubSeq(list, 1, Len(list) - 1)

\* A closeModal that drops the oldest modal when called without id
closeModalOldest(list, id) ==
    IF id # 0
    THEN IF findIndex(list, id) > 0 THEN splice(list, findIndex(list, id))
         ELSE list
    ELSE SubSeq(list, 2, Len(list))

\* closeModal(id): the modals left
closeModal(list, id) ==
    IF id # 0
    THEN IF findIndex(list, id) > 0 THEN splice(list, findIndex(list, id))
         ELSE list
    ELSE pop(list)

\* closeSidebar(id): the sidebars left
closeSidebar(list, id) ==
    IF id # 0
    THEN IF findIndex(list, id) > 0 THEN splice(list, findIndex(list, id))
         ELSE list
    ELSE pop(list)

UIFrame == UNCHANGED <<backVars, tooltipVars, navVars, noteVars>>

openSearch ==
    /\ isSearchOpen' = TRUE
    /\ lastKey' = "openSearch"
    /\ UNCHANGED <<searchQuery, isCommandPaletteOpen, modals, sidebars,
                   confirmDialog, uiNextId>>
    /\ UIFrame

setSearchQuery ==
    /\ \E query \in {"", "q"} : searchQuery' = query
    /\ lastKey' = "setSearchQuery"
    /\ UNCHANGED <<isSearchOpen, isCommandPaletteOpen, modals, sidebars,
                   confirmDialog, uiNextId>>
    /\ UIFrame

openCommandPalette ==
    /\ isCommandPaletteOpen' = TRUE
    /\ lastKey' = "openCommandPalette"
    /\ UNCHANGED <<isSearchOpen, searchQuery, modals, sidebars, confirmDialog,
                   uiNextId>>
    /\ UIFrame

openModal ==
    /\ uiNextId <= MaxOpened
    /\ modals' = Append(modals, uiNextId)
    /\ uiNextId' = uiNextId + 1
    /\ lastKey' = "openModal"
    /\ UNCHANGED <<isSearchOpen, searchQuery, isCommandPaletteOpen, sidebars,
                   confirmDialog>>
    /\ UIFrame

CloseModal ==
    /\ \E id \in 0..(uiNextId - 1) : modals' = closeModal(modals, id)
    /\ lastKey' = "closeModal"
    /\ UNCHANGED <<isSearchOpen, searchQuery, isCommandPaletteOpen, sidebars,
                   confirmDialog, uiNextId>>
    /\ UIFrame

openSidebar ==
    /\ uiNextId <= MaxOpened
    /\ sidebars' = Append(sidebars, uiNextId)
    /\ uiNextId' = uiNextId + 1
    /\ lastKey' = "openSidebar"
    /\ UNCHANGED <<isSearchOpen, searchQuery, isCommandPaletteOpen, modals,
                   confirmDialog>>
    /\ UIFrame

CloseSidebar ==
    /\ \E id \in 0..(uiNextId - 1) : sidebars' = closeSidebar(sidebars, id)
    /\ lastKey' = "closeSidebar"
    /\ UNCHANGED <<isSearchOpen, searchQuery, isCommandPaletteOpen, modals,
                   confirmDialog, uiNextId>>
    /\ UIFrame

\* showConfirm(options), with an onCancel callback or without
showConfirm ==
    /\ \E options \in {"onConfirm", "onConfirm,onCancel"} :
          confirmDialog' = options
    /\ lastKey' = "showConfirm"
    /\ UNCHANGED <<isSearchOpen, searchQuery, isCommandPaletteOpen, modals,
                   sidebars, uiNextId>>
    /\ UIFrame

\* handleKeyboard(event): the modifier shortcuts, then the Escape chain.  The
\* onCancel callback of a dialog is the caller's and leaves the store alone.
handleKeyboard ==
    /\ \E isModifierPressed \in BOOLEAN, key \in {"/", "k", "Escape"} :
          LET searchOpened == isModifierPressed /\ key = "/"
              paletteOpened == isModifierPressed /\ key = "k"
              isSearch == isSearchOpen \/ searchOpened
              isPalette == isCommandPaletteOpen \/ paletteOpened
          IN /\ lastKey' = key
             /\ IF key # "Escape"
                THEN /\ isSearchOpen' = isSearch
                     /\ isCommandPaletteOpen' = isPalette
                     /\ UNCHANGED <<searchQuery, modals, sidebars, confirmDialog>>
                ELSE IF isSearch
                THEN /\ isSearchOpen' = FALSE
                     /\ searchQuery' = ""
                     /\ UNCHANGED <<isCommandPaletteOpen, modals, sidebars,
                                    confirmDialog>>
                ELSE IF isPalette
                THEN /\ isCommandPaletteOpen' = FALSE
                     /\ UNCHANGED <<isSearchOpen, searchQuery, modals, sidebars,
                                    confirmDialog>>
                ELSE IF hasModals
                THEN /\ modals' = closeModal(modals, 0)
                     /\ UNCHANGED <<isSearchOpen, searchQuery,
                                    isCommandPaletteOpen, sidebars, confirmDialog>>
                ELSE IF hasSidebars
                THEN /\ sidebars' = closeSidebar(sidebars, 0)
                     /\ UNCHANGED <<isSearchOpen, searchQuery,
                                    isCommandPaletteOpen, modals, confirmDialog>>
                ELSE IF confirmDialog # "null"
                THEN /\ confirmDialog' = "null"
                     /\ UNCHANGED <<isSearchOpen, searchQuery,
                                    isCommandPaletteOpen, modals, sidebars>>
                ELSE UNCHANGED <<isSearchOpen, searchQuery, isCommandPaletteOpen,
                                 modals, sidebars, confirmDialog>>
    /\ UNCHANGED uiNextId
    /\ UIFrame

InitUI == BackIdle /\ FrontIdle

NextUI ==
    \/ openSearch
    \/ setSearchQuery
    \/ openCommandPalette
    \/ openModal
    \/ CloseModal
    \/ openSidebar
    \/ CloseSidebar
    \/ showConfirm
    \/ handleKeyboard

SpecUI == InitUI /\ [][NextUI]_vars

-----------------------------------------------------------------------------
(* The notifications of the UI store.  A notification is the object
   addNotification builds, its id the rank of the call. *)

DefaultDuration == 5000

\* The fields a caller gives that decide about the timer
NoteOptions ==
    {[title |-> "t"],
     [title |-> "t", persistent |-> TRUE],
     [title |-> "t", duration |-> 0],
     [title |-> "t", persistent |-> TRUE, duration |-> 3000]}

\* { id, duration: 5000, ...notification }
newNotification(id, notification) ==
    notification @@ [id |-> id, duration |-> DefaultDuration]

\* !newNotification.persistent && newNotification.duration
TimerWanted(n) ==
    /\ ~("persistent" \in DOMAIN n /\ n.persistent)
    /\ n.duration # 0

\* A removeNotification that drops the first notification of the list
removeNotificationFirst(list, id) ==
    IF \E i \in 1..Len(list) : list[i].id = id
    THEN SubSeq(list, 2, Len(list))
    ELSE list

\* removeNotification(id): the list without the first entry of that id
removeNotification(list, id) ==
    IF \E i \in 1..Len(list) : list[i].id = id
    THEN LET index == CHOOSE i \in 1..Len(list) :
                         list[i].id = id /\ \A j \in 1..(i - 1) : list[j].id # id
         IN SubSeq(list, 1, index - 1) \o SubSeq(list, index + 1, Len(list))
    ELSE list

NoteFrame == UNCHANGED <<backVars, tooltipVars, navVars, uiVars>>

addNotification ==
    /\ noteNextId <= MaxNotes
    /\ \E notification \in NoteOptions :
          LET n == newNotification(noteNextId, notification)
          IN /\ notifications' = Append(notifications, n)
             /\ noteTimers' = IF TimerWanted(n)
                              THEN noteTimers \cup {noteNextId}
                              ELSE noteTimers
    /\ noteNextId' = noteNextId + 1
    /\ UNCHANGED lastTimer
    /\ NoteFrame

\* removeNotification(id) called by a component
RemoveNotification ==
    /\ \E id \in 1..(noteNextId - 1) :
          notifications' = removeNotification(notifications, id)
    /\ UNCHANGED <<noteTimers, noteNextId, lastTimer>>
    /\ NoteFrame

clearNotifications ==
    /\ notifications' = << >>
    /\ UNCHANGED <<noteTimers, noteNextId, lastTimer>>
    /\ NoteFrame

\* The timer of addNotification fires: removeNotification(id)
NoteTimerFires(id) ==
    /\ id \in noteTimers
    /\ noteTimers' = noteTimers \ {id}
    /\ lastTimer' = id
    /\ notifications' = removeNotification(notifications, id)
    /\ UNCHANGED noteNextId
    /\ NoteFrame

NoteTimer == \E id \in 1..MaxNotes : NoteTimerFires(id)

InitNotes == BackIdle /\ FrontIdle

NextNotes ==
    \/ addNotification
    \/ RemoveNotification
    \/ clearNotifications
    \/ NoteTimer

SpecNotes == InitNotes /\ [][NextNotes]_vars

\* A timer set with setTimeout fires in the end
FairSpecNotes ==
    SpecNotes /\ \A id \in 1..MaxNotes : WF_vars(NoteTimerFires(id))

-----------------------------------------------------------------------------
(* Calls of generateVueStyles on bounded style maps *)

\* The non-empty strings over an alphabet, up to n characters
Strings(alphabet, n) == UNION {[1..k -> alphabet] : k \in 1..n}

StyleKeys == Strings({"a", "B"}, MaxKeyLen)

StyleValues == {<<"1","r","e","m">>}

StyleEntries == [key : StyleKeys, value : StyleValues]

\* Object keys are unique
DistinctKeys(es) == \A i, j \in DOMAIN es : i # j => es[i].key # es[j].key

\* {backgroundColor: "#fff", padding: "1rem"}
ExampleStyles ==
    [defined |-> TRUE,
     entries |-> << [key |-> <<"b","a","c","k","g","r","o","u","n","d","C","o","l","o","r">>,
                     value |-> <<"#","f","f","f">>],
                    [key |-> <<"p","a","d","d","i","n","g">>,
                     value |-> <<"1","r","e","m">>] >>]

\* undefined (page.content?.styles of a page without content or styles)
UndefinedStyles == [defined |-> FALSE, entries |-> << >>]

StyleMaps ==
    {UndefinedStyles, ExampleStyles}
    \cup {[defined |-> TRUE, entries |-> es] :
             es \in {e \in UNION {[1..n -> StyleEntries] : n \in 0..MaxEntries} :
                        DistinctKeys(e)}}

InitStyles ==
    /\ emitArg \in StyleMaps
    /\ emitOut = << >>
    /\ emitPc = "ready"
    /\ StoreIdle

EmitStyles ==
    /\ emitPc = "ready"
    /\ emitOut' = generateVueStyles(emitArg)
    /\ emitPc' = "done"
    /\ UNCHANGED <<emitArg, storeVars>>

NextStyles == EmitStyles

SpecStyles == InitStyles /\ [][NextStyles]_vars

-----------------------------------------------------------------------------
(* Calls of generateVueTemplate on bounded component lists *)

\* The records over some of the keys, every value a string of vals
StrRecords(keys, vals) == UNION {[D -> vals] : D \in SUBSET keys}

\* A node of the type with no props field, or with each of the props records
NodesOf(type, propsSet) ==
    {[type |-> type]} \cup {[type |-> type, props |-> p] : p \in propsSet}

HeadingProps ==
    {[level |-> l, text |-> t] : l \in {0, 2}, t \in {"", "Hi"}}
    \cup {[level |-> l] : l \in {0, 2}} \cup StrRecords({"text"}, {"", "Hi"})

GridProps ==
    {[columns |-> n, gap |-> g] : n \in {0, 3}, g \in {"", "2rem"}}
    \cup {[columns |-> n] : n \in {0, 3}} \cup StrRecords({"gap"}, {"", "2rem"})

\* Single nodes of every known type with every combination of absent, empty
\* and non-empty props, and nodes of types the switch does not know
PropVariantNodes ==
    NodesOf("heading", HeadingProps)
    \cup NodesOf("text", StrRecords({"content"}, {"", "t1"}))
    \cup NodesOf("button", StrRecords({"text"}, {"", "Go"}))
    \cup NodesOf("image", StrRecords({"src", "alt"}, {"", "x"}))
    \cup NodesOf("container", StrRecords({"className"}, {"", "box"}))
    \cup NodesOf("grid", GridProps)
    \cup NodesOf("card", StrRecords({"title", "description"}, {"", "T"}))
    \cup NodesOf("hero", StrRecords({"title", "subtitle", "buttonText"}, {"", "T"}))
    \cup NodesOf("mystery", StrRecords({"text"}, {"Hi"}))
    \cup NodesOf("form", StrRecords({"text"}, {"Hi"}))

\* The leaves of the nested lists
NestLeaves == {HeadingHi, TextT1, Mystery}

\* The container and grid nodes of the nested lists, before their children
Wrappers == {[type |-> "container"], [type |-> "grid", props |-> [columns |-> 3]]}

\* node with the field children set
WithChildren(node, children) ==
    [f \in DOMAIN node \cup {"children"} |->
        IF f = "children" THEN children ELSE node[f]]

RECURSIVE ForestsOfSize(_)
\* The trees of exactly k nodes
TreesOfSize(k) ==
    IF k = 1
    THEN NestLeaves \cup Wrappers \cup {WithChildren(w, << >>) : w \in Wrappers}
    ELSE {WithChildren(w, f) : w \in Wrappers, f \in ForestsOfSize(k - 1)}

\* The lists of trees of exactly n nodes together
ForestsOfSize(n) ==
    IF n = 0 THEN {<< >>}
    ELSE UNION {{<<t>> \o f : t \in TreesOfSize(j), f \in ForestsOfSize(n - j)} :
                  j \in 1..n}

\* {type: "grid", props: {columns: 3}, children: [heading "Hi", text "t1"]}
ExampleGrid ==
    [type |-> "grid", props |-> [columns |-> 3], children |-> <<HeadingHi, TextT1>>]

ComponentLists ==
    UNION {ForestsOfSize(n) : n \in 0..MaxNodes}
    \cup {<<c>> : c \in PropVariantNodes}
    \cup {<<ExampleGrid>>, <<WithChildren(Mystery, <<HeadingHi>>)>>}

InitTemplate ==
    /\ emitArg \in ComponentLists
    /\ emitOut = << >>
    /\ emitPc = "ready"
    /\ StoreIdle

EmitTemplate ==
    /\ emitPc = "ready"
    /\ emitOut' = generateVueTemplate(emitArg)
    /\ emitPc' = "done"
    /\ UNCHANGED <<emitArg, storeVars>>

NextTemplate == EmitTemplate

SpecTemplate == InitTemplate /\ [][NextTemplate]_vars

-----------------------------------------------------------------------------
(* Calls of generateVuePageComponent on bounded pages *)

\* Page names: PUT /:appId/pages/:pageId stores any non-empty name as given
PageNames == Strings({"A", "b", " "}, MaxNameLen)

\* content.seo of a page: absent fields, empty and non-empty values
SeoRecords ==
    {[title |-> t, description |-> d] : t \in {"", "Ttl"}, d \in {"", "Desc"}}
    \cup StrRecords({"title"}, {"", "Ttl"})
    \cup StrRecords({"description"}, {"", "Desc"})

\* content.styles as written by POST /:appId/pages (first entry)
PageStyleEntries ==
    << [key |-> <<"b","a","c","k","g","r","o","u","n","d","C","o","l","o","r">>,
        value |-> <<"#","f","f","f">>] >>

\* page.content: components absent, empty or not; seo absent or any of
\* SeoRecords; styles as created
PageContents ==
    {[styles |-> PageStyleEntries]}
    \cup {[components |-> cs, styles |-> PageStyleEntries] :
            cs \in {<< >>, <<HeadingHi>>, <<ExampleGrid, Mystery>>}}
    \cup {[seo |-> seo, styles |-> PageStyleEntries] : seo \in SeoRecords}
    \cup {[components |-> cs, seo |-> seo] :
            cs \in {<< >>, <<HeadingHi>>}, seo \in SeoRecords}

Pages ==
    {[name |-> n] : n \in PageNames}
    \cup {[name |-> n, content |-> c] : n \in PageNames, c \in PageContents}

TheApp == [name |-> "Shop", subdomain |-> "shop"]

InitPage ==
    /\ emitArg \in Pages
    /\ emitOut = << >>
    /\ emitPc = "ready"
    /\ StoreIdle

EmitPage ==
    /\ emitPc = "ready"
    /\ emitOut' = generateVuePageComponent(emitArg, TheApp)
    /\ emitPc' = "done"
    /\ UNCHANGED <<emitArg, storeVars>>

NextPage == EmitPage

SpecPage == InitPage /\ [][NextPage]_vars

-----------------------------------------------------------------------------
(* Calls of generateVueApp on bounded page lists *)

\* Page names as POST /:appId/pages stores them: trimmed, so a space only
\* between letters
TrimmedNames ==
    {n \in Strings({"A", " "}, MaxNameLen) : n[1] # " " /\ n[Len(n)] # " "}

\* The pages of an app as the page query returns them: a name and a path each,
\* content as created by POST /:appId/pages
AppPages ==
    {[name |-> n, path |-> p,
      content |-> [components |-> << >>,
                   seo |-> [title |-> "Ttl", description |-> ""]]] :
        n \in TrimmedNames, p \in {"/", "/about"}}

CustomComponents ==
    {<< >>, << [name |-> <<"N","a","v">>, template |-> "<nav />"] >>}

\* The arguments of a call: app, pages, components, functions
AppCalls ==
    [app : {TheApp}, pages : UNION {[1..n -> AppPages] : n \in 0..MaxPages},
     components : CustomComponents, functions : {<< >>}]

InitApp ==
    /\ emitArg \in AppCalls
    /\ emitOut = << >>
    /\ emitPc = "ready"
    /\ StoreIdle

EmitApp ==
    /\ emitPc = "ready"
    /\ emitOut' = generateVueApp(emitArg.app, emitArg.pages, emitArg.components,
                                 emitArg.functions)
    /\ emitPc' = "done"
    /\ UNCHANGED <<emitArg, storeVars>>

NextApp == EmitApp

SpecApp == InitApp /\ [][NextApp]_vars

-----------------------------------------------------------------------------
(* Claims about generateVueStyles, checked under SpecStyles *)

RECURSIVE SplitOn(_, _)
\* The pieces of s between the occurrences of the fragment c
SplitOn(s, c) ==
    IF \A i \in DOMAIN s : s[i] # c THEN <<s>>
    ELSE LET i == CHOOSE j \in DOMAIN s : s[j] = c /\ \A k \in 1..(j-1) : s[k] # c
         IN <<SubSeq(s, 1, i-1)>> \o SplitOn(SubSeq(s, i+1, Len(s)), c)

UpperChar(c) ==
    IF \E i \in DOMAIN LowerSeq : LowerSeq[i] = c
    THEN UpperSeq[CHOOSE i \in DOMAIN LowerSeq : LowerSeq[i] = c]
    ELSE c

RECURSIVE UnKebab(_)
\* Reads a kebab-case name back: each "-x" is the upper-case letter X
UnKebab(k) ==
    IF k = << >> THEN << >>
    ELSE IF Head(k) = "-" /\ Len(k) >= 2
         THEN <<UpperChar(k[2])>> \o UnKebab(SubSeq(k, 3, Len(k)))
         ELSE <<Head(k)>> \o UnKebab(Tail(k))

\* k is key with each upper-case letter replaced by a hyphen and its lower-case form
IsKebabOf(k, key) ==
    /\ \A i \in DOMAIN k : ~IsUpper(k[i])
    /\ Len(k) = Len(key) + Cardinality({i \in DOMAIN key : IsUpper(key[i])})
    /\ UnKebab(k) = key

\* 'background-color: #fff;\npadding: 1rem;'
ExampleCssClaimed ==
    <<"b","a","c","k","g","r","o","u","n","d","-","c","o","l","o","r",":"," ",
      "#","f","f","f",";","\n",
      "p","a","d","d","i","n","g",":"," ","1","r","e","m",";">>

\* '  background-color: #fff;\n  padding: 1rem;\n'
ExampleCssEmitted ==
    <<" "," ","b","a","c","k","g","r","o","u","n","d","-","c","o","l","o","r",":"," ",
      "#","f","f","f",";","\n",
      " "," ","p","a","d","d","i","n","g",":"," ","1","r","e","m",";","\n">>

\* C4 as stated: the result is the declarations 'kebab-key: value;' in input
\* order, separated by one newline (nothing before the first, nothing after the
\* last); the example map gives 'background-color: #fff;\npadding: 1rem;'; an
\* undefined map gives the empty string.
C4_AsStated ==
    emitPc = "done" =>
        /\ ~emitArg.defined => emitOut = << >>
        /\ emitArg.defined =>
              LET decls == SplitOn(emitOut, "\n")
                  es == emitArg.entries
              IN /\ Len(decls) = Len(es) \/ (es = << >> /\ emitOut = << >>)
                 /\ es # << >> => \A i \in DOMAIN es :
                       \E k \in {SubSeq(decls[i], 1, n) : n \in 0..Len(decls[i])} :
                           /\ IsKebabOf(k, es[i].key)
                           /\ decls[i] = k \o <<":", " ">> \o es[i].value \o <<";">>
        /\ emitArg = ExampleStyles => emitOut = ExampleCssClaimed

\* C4 amended: the result is one line per entry, in input order, each line being
\* two spaces, the kebab-cased key, ': ', the value, ';' and a newline (so the
\* result ends with a newline and every declaration is indented); the example map
\* gives '  background-color: #fff;\n  padding: 1rem;\n'; an undefined map gives
\* the empty string.
C4_StylesSerialized ==
    emitPc = "done" =>
        /\ ~emitArg.defined => emitOut = << >>
        /\ emitArg.defined =>
              LET lines == SplitOn(emitOut, "\n")
                  es == emitArg.entries
              IN /\ Len(lines) = Len(es) + 1
                 /\ lines[Len(lines)] = << >>
                 /\ \A i \in DOMAIN es :
                       \E k \in {SubSeq(lines[i], 3, n) : n \in 2..Len(lines[i])} :
                           /\ IsKebabOf(k, es[i].key)
                           /\ lines[i] = <<" ", " ">> \o k \o <<":", " ">>
                                             \o es[i].value \o <<";">>
        /\ emitArg = ExampleStyles => emitOut = ExampleCssEmitted

\* The example map has been serialized
C4_Witness ==
    emitPc = "done" /\ emitArg = ExampleStyles /\ emitOut = ExampleCssEmitted

-----------------------------------------------------------------------------
(* Reading emitted markup back, for the claims about generateVueTemplate *)

KnownTypes == {"heading", "text", "button", "image", "container", "hero", "card", "grid"}

ContainerOpen == "    <div class=\"container "
GridOpen == "    <div class=\"grid\" style=\"grid-template-columns: repeat("
CardOpen == "    <div class=\"card\">"
DivClose == "    </div>"
PlaceholderOpen == "    <div class=\""
HeadingOpen == " class=\"heading\">"
ParagraphOpen == "    <p class=\"text\">"

\* Number of wrappers open at position i of the markup: opening tags of div
\* blocks before i, less the closing tags before i
DepthAt(out, i) ==
    Cardinality({j \in 1..(i-1) : out[j] \in {ContainerOpen, GridOpen, CardOpen}})
        - Cardinality({j \in 1..(i-1) : out[j] = DivClose})

\* What stands at position i of the markup, if an element starts there: the
\* wrapper kind, or the text of a heading or paragraph, or the class of a
\* placeholder; << >> if none does
OutlineAt(out, i) ==
    IF out[i] = ContainerOpen THEN << <<"container", DepthAt(out, i)>> >>
    ELSE IF out[i] = GridOpen THEN << <<"grid", DepthAt(out, i)>> >>
    ELSE IF i > 1 /\ out[i-1] \in {HeadingOpen, ParagraphOpen, PlaceholderOpen}
         THEN << <<IF out[i] \in {"</h", "</p>"} THEN "" ELSE out[i],
                   DepthAt(out, i)>> >>
         ELSE << >>

\* The elements of the markup in document order, each with its nesting depth
Outline(out) == Concat([i \in DOMAIN out |-> OutlineAt(out, i)])

\* The value of a prop when it is present, else the default
GivenOr(component, key, dflt) ==
    IF Has(component, "props") /\ Has(component.props, key)
    THEN component.props[key] ELSE dflt

RECURSIVE TreeOutline(_, _)
\* The nodes of a component list in document order (a node before its children,
\* children in input order), each with its depth in the tree; headings and
\* paragraphs by their text, other types by their type name
NodeOutline(c, d) ==
    IF c.type \in {"container", "grid"}
    THEN << <<c.type, d>> >>
            \o (IF Has(c, "children") THEN TreeOutline(c.children, d + 1) ELSE << >>)
    ELSE IF c.type = "heading" THEN << <<GivenOr(c, "text", ""), d>> >>
    ELSE IF c.type = "text" THEN << <<GivenOr(c, "content", ""), d>> >>
    ELSE IF c.type \notin KnownTypes THEN << <<c.type, d>> >>
    ELSE << >>

TreeOutline(cs, d) ==
    IF cs = << >> THEN << >>
    ELSE NodeOutline(Head(cs), d) \o TreeOutline(Tail(cs), d)

\* C5: every container or grid node's children are emitted, in input order,
\* between the opening and the closing tag of the node's wrapper, at every
\* depth: the elements of the markup, read in document order with their nesting
\* depth, are the nodes of the tree in document order with their tree depth, and
\* every wrapper opened is closed.  For the grid with columns = 3 and two
\* children the wrapper declares 3 tracks and holds both children in order.
C5_ChildrenNestedInOrder ==
    emitPc = "done" =>
        /\ Outline(emitOut) = TreeOutline(emitArg, 0)
        /\ DepthAt(emitOut, Len(emitOut) + 1) = 0
        /\ \A i \in DOMAIN emitOut : DepthAt(emitOut, i) >= 0
        /\ emitArg = <<ExampleGrid>> =>
              /\ emitOut[1] = GridOpen /\ emitOut[2] = "3"
              /\ emitOut[Len(emitOut)] = DivClose
              /\ Outline(emitOut) = << <<"grid", 0>>, <<"Hi", 1>>, <<"t1", 1>> >>

\* A container holding a grid of two children has been emitted, the children
\* two levels deep
C5_Witness ==
    /\ emitPc = "done"
    /\ Len(emitArg) = 1 /\ emitArg[1].type = "container"
    /\ Outline(emitOut) =
          << <<"container", 0>>, <<"grid", 1>>, <<"Hi", 2>> >>

\* The placeholders of the markup in document order: class name and depth
Placeholders(out) ==
    Concat([i \in DOMAIN out |->
              IF i > 1 /\ out[i-1] = PlaceholderOpen
              THEN << <<out[i], DepthAt(out, i)>> >> ELSE << >>])

RECURSIVE UnknownNodes(_, _)
\* The nodes of a type the switch does not know, in document order, with depth
UnknownNodes(cs, d) ==
    IF cs = << >> THEN << >>
    ELSE LET c == Head(cs)
         IN (IF c.type \notin KnownTypes THEN << <<c.type, d>> >>
             ELSE IF c.type \in {"container", "grid"} /\ Has(c, "children")
                  THEN UnknownNodes(c.children, d + 1)
                  ELSE << >>)
            \o UnknownNodes(Tail(cs), d)

\* C6: for every node of a type other than the eight the switch knows, at top
\* level or nested in a container or grid, the call returns and the markup holds
\* exactly one placeholder for it, an empty div whose class is the type name
\* (with a comment naming the type and nothing else inside).
C6_UnknownTypePlaceholder ==
    /\ emitPc = "ready" => ENABLED EmitTemplate
    /\ emitPc = "done" =>
          /\ Placeholders(emitOut) = UnknownNodes(emitArg, 0)
          /\ \A i \in DOMAIN emitOut :
                emitOut[i] = PlaceholderOpen =>
                    /\ i + 4 <= Len(emitOut)
                    /\ emitOut[i+2] = "\"><!-- "
                    /\ emitOut[i+3] = emitOut[i+1]
                    /\ emitOut[i+4] = " component --></div>"

\* An unknown node nested in a container has been emitted as a placeholder
C6_Witness ==
    /\ emitPc = "done"
    /\ emitArg = <<WithChildren([type |-> "container"], <<Mystery>>)>>
    /\ Placeholders(emitOut) = << <<"mystery", 1>> >>

\* Whether a prop is present in the node
Present(component, key) == Has(component, "props") /\ Has(component.props, key)

\* The fragments between the first occurrence of open and the next occurrence
\* of close; <<"?">> when the markup has no such pair
Between(out, open, close) ==
    IF \E i, j \in DOMAIN out : i < j /\ out[i] = open /\ out[j] = close
    THEN LET i == CHOOSE a \in DOMAIN out :
                     out[a] = open /\ \A b \in 1..(a-1) : out[b] # open
             j == CHOOSE a \in DOMAIN out :
                     a > i /\ out[a] = close /\ \A b \in (i+1)..(a-1) : out[b] # close
         IN SubSeq(out, i + 1, j - 1)
    ELSE <<"?">>

\* What the markup of one node of a known type shows for each of its props
Shown(type, out) ==
    CASE type = "heading" ->
             [level |-> <<out[2]>>, closeLevel |-> <<out[Len(out) - 1]>>,
              text |-> Between(out, HeadingOpen, "</h")]
      [] type = "text" -> [content |-> Between(out, ParagraphOpen, "</p>")]
      [] type = "button" ->
             [text |-> Between(out, "    <button class=\"btn\" @click=\"handleClick\">",
                               "</button>")]
      [] type = "image" ->
             [src |-> Between(out, "    <img src=\"", "\" alt=\""),
              alt |-> Between(out, "\" alt=\"", "\" class=\"image\" />")]
      [] type = "container" -> [className |-> Between(out, ContainerOpen, "\">")]
      [] type = "grid" ->
             [columns |-> Between(out, GridOpen, ", 1fr); gap: "),
              gap |-> Between(out, ", 1fr); gap: ", ";\">")]
      [] type = "card" ->
             [title |-> Between(out, "      <h3 class=\"card-title\">", "</h3>"),
              description |-> Between(out, "      <p class=\"card-description\">", "</p>")]
      [] type = "hero" ->
             [title |-> Between(out, "        <h1 class=\"hero-title\">", "</h1>"),
              subtitle |-> Between(out, "        <p class=\"hero-subtitle\">", "</p>")]

\* What C8 says the markup shows: a present prop as given, a missing one by its
\* default
ShownAsStated(c) ==
    CASE c.type = "heading" ->
             [level |-> <<ToString(GivenOr(c, "level", 1))>>,
              closeLevel |-> <<ToString(GivenOr(c, "level", 1))>>,
              text |-> Text(GivenOr(c, "text", ""))]
      [] c.type = "text" -> [content |-> Text(GivenOr(c, "content", ""))]
      [] c.type = "button" -> [text |-> Text(GivenOr(c, "text", "Button"))]
      [] c.type = "image" ->
             [src |-> Text(GivenOr(c, "src", "")), alt |-> Text(GivenOr(c, "alt", ""))]
      [] c.type = "container" -> [className |-> Text(GivenOr(c, "className", ""))]
      [] c.type = "grid" ->
             [columns |-> <<ToString(GivenOr(c, "columns", 1))>>,
              gap |-> Text(GivenOr(c, "gap", "1rem"))]
      [] c.type = "card" ->
             [title |-> Text(GivenOr(c, "title", "")),
              description |-> Text(GivenOr(c, "description", ""))]
      [] c.type = "hero" ->
             [title |-> Text(GivenOr(c, "title", "")),
              subtitle |-> Text(GivenOr(c, "subtitle", ""))]

\* The value of a prop when it is present and neither the empty string nor 0,
\* else the default
TruthyOr(component, key, dflt, falsy) ==
    IF Present(component, key) /\ component.props[key] # falsy
    THEN component.props[key] ELSE dflt

\* What the markup shows according to the amended C8
ShownAmended(c) ==
    CASE c.type = "heading" ->
             [level |-> <<ToString(TruthyOr(c, "level", 1, 0))>>,
              closeLevel |-> <<ToString(TruthyOr(c, "level", 1, 0))>>,
              text |-> Text(TruthyOr(c, "text", "", ""))]
      [] c.type = "text" -> [content |-> Text(TruthyOr(c, "content", "", ""))]
      [] c.type = "button" -> [text |-> Text(TruthyOr(c, "text", "Button", ""))]
      [] c.type = "image" ->
             [src |-> Text(TruthyOr(c, "src", "", "")),
              alt |-> Text(TruthyOr(c, "alt", "", ""))]
      [] c.type = "container" -> [className |-> Text(TruthyOr(c, "className", "", ""))]
      [] c.type = "grid" ->
             [columns |-> <<ToString(TruthyOr(c, "columns", 1, 0))>>,
              gap |-> Text(TruthyOr(c, "gap", "1rem", ""))]
      [] c.type = "card" ->
             [title |-> Text(TruthyOr(c, "title", "", "")),
              description |-> Text(TruthyOr(c, "description", "", ""))]
      [] c.type = "hero" ->
             [title |-> Text(TruthyOr(c, "title", "", "")),
              subtitle |-> Text(TruthyOr(c, "subtitle", "", ""))]

\* The call emitted one node of a known type
OneKnownNode ==
    emitPc = "done" /\ Len(emitArg) = 1 /\ emitArg[1].type \in KnownTypes

\* C8 as stated: for a node of a known type, a missing props mapping counts as
\* empty, each missing prop takes its per-type default and each present prop is
\* emitted as given; heading level 2 with text 'Hi' gives a level-2 heading
\* wrapping exactly 'Hi'.
C8_AsStated ==
    OneKnownNode =>
        /\ Shown(emitArg[1].type, emitOut) = ShownAsStated(emitArg[1])
        /\ emitArg = <<HeadingHi>> =>
              emitOut = <<"    <h", "2", HeadingOpen, "Hi", "</h", "2", ">">>

\* C8 amended: for a node of a known type, a missing props mapping counts as
\* empty; a prop that is missing, or present with the empty string or 0, takes
\* its per-type default (so an empty button label gives 'Button', level 0 gives
\* level 1, columns 0 gives 1 column, an empty gap gives '1rem'); any other
\* present prop is emitted as given; heading level 2 with text 'Hi' gives a
\* level-2 heading wrapping exactly 'Hi'.
C8_DefaultsForMissingOrFalsy ==
    OneKnownNode =>
        /\ Shown(emitArg[1].type, emitOut) = ShownAmended(emitArg[1])
        /\ emitArg = <<HeadingHi>> =>
              emitOut = <<"    <h", "2", HeadingOpen, "Hi", "</h", "2", ">">>

\* A button without props has been emitted with the label 'Button'
C8_Witness ==
    /\ emitPc = "done"
    /\ emitArg = <<[type |-> "button"]>>
    /\ Shown("button", emitOut).text = <<"Button">>

HeroButtonOpen == "<button class=\"hero-button\">"

\* C9: the section of a hero node holds a call-to-action button if and only if
\* props.buttonText is present and non-empty, the button then wrapping that
\* text; title and subtitle are emitted in both cases.
C9_HeroButtonIffText ==
    (OneKnownNode /\ emitArg[1].type = "hero") =>
        LET c == emitArg[1]
            wanted == Present(c, "buttonText") /\ c.props.buttonText # ""
        IN /\ (\E i \in DOMAIN emitOut : emitOut[i] = HeroButtonOpen) <=> wanted
           /\ (\E i \in DOMAIN emitOut : emitOut[i] = "</button>") <=> wanted
           /\ wanted => Between(emitOut, HeroButtonOpen, "</button>")
                           = <<c.props.buttonText>>
           /\ Cardinality({i \in DOMAIN emitOut : emitOut[i] = HeroButtonOpen}) <= 1
           /\ Shown("hero", emitOut).title = Text(GivenOr(c, "title", ""))
           /\ Shown("hero", emitOut).subtitle = Text(GivenOr(c, "subtitle", ""))

\* A hero with title and button text has been emitted with its button
C9_Witness ==
    /\ OneKnownNode /\ emitArg[1].type = "hero"
    /\ Present(emitArg[1], "buttonText") /\ emitArg[1].props.buttonText = "T"
    /\ Present(emitArg[1], "title") /\ emitArg[1].props.title = "T"
    /\ Between(emitOut, HeroButtonOpen, "</button>") = <<"T">>

\* A hero without button text has been emitted without a button
C9_WitnessNoButton ==
    /\ OneKnownNode /\ emitArg[1].type = "hero"
    /\ ~Present(emitArg[1], "buttonText")
    /\ \A i \in DOMAIN emitOut : emitOut[i] # HeroButtonOpen

-----------------------------------------------------------------------------
(* Claims about generateVuePageComponent, checked under SpecPage *)

\* The fragments that open the markup of a component of any type
PerTypeOpeners ==
    {"    <h", ParagraphOpen, "    <button class=\"btn\" @click=\"handleClick\">",
     "    <img src=\"", ContainerOpen, "    <section class=\"hero\">", CardOpen,
     GridOpen, PlaceholderOpen}

\* content.components is empty or absent
NoComponents(page) ==
    \/ ~Has(page, "content")
    \/ ~Has(page.content, "components")
    \/ page.content.components = << >>

\* C7: for every page whose content.components is empty or absent, the page
\* source holds the empty-page placeholder exactly once and the markup of no
\* component type.
C7_EmptyPagePlaceholder ==
    (emitPc = "done" /\ NoComponents(emitArg)) =>
        /\ Cardinality({i \in DOMAIN emitOut : emitOut[i] = EmptyPagePlaceholder}) = 1
        /\ \A i \in DOMAIN emitOut : emitOut[i] \notin PerTypeOpeners
        /\ Between(emitOut, "\">\n", TemplateFoot) = <<EmptyPagePlaceholder>>

\* A page with content.components = [] has been emitted
C7_Witness ==
    /\ emitPc = "done"
    /\ Has(emitArg, "content") /\ Has(emitArg.content, "components")
    /\ emitArg.content.components = << >>
    /\ \E i \in DOMAIN emitOut : emitOut[i] = EmptyPagePlaceholder

\* content.seo.description is present and not the empty string
HasDescription(page) ==
    /\ Has(page, "content") /\ Has(page.content, "seo")
    /\ Has(page.content.seo, "description")
    /\ page.content.seo.description # ""

\* content.seo.title when present and non-empty, else page.name
TitleOrName(page) ==
    IF Has(page, "content") /\ Has(page.content, "seo")
          /\ Has(page.content.seo, "title") /\ page.content.seo.title # ""
    THEN <<page.content.seo.title>> ELSE page.name

\* C10: the emitted lifecycle hook sets or creates the description meta tag if
\* and only if content.seo.description is present and non-empty (with no seo or
\* no description its guard is false and no tag is set), and the title it
\* assigns is content.seo.title, or page.name when that is missing, followed by
\* ' | ' and the app name.
C10_DescriptionIffPresent ==
    emitPc = "done" =>
        /\ Mounted(emitOut).setsDescription <=> HasDescription(emitArg)
        /\ Mounted(emitOut).title = TitleOrName(emitArg) \o <<" | ", TheApp.name>>

\* The part of C10 the code satisfies: the title, the tag for a non-empty
\* description, and no tag for a description that is present and empty
C10_TitleAndGivenDescription ==
    emitPc = "done" =>
        /\ Mounted(emitOut).title = TitleOrName(emitArg) \o <<" | ", TheApp.name>>
        /\ HasDescription(emitArg) =>
              /\ Mounted(emitOut).setsDescription
              /\ Mounted(emitOut).description = <<emitArg.content.seo.description>>
        /\ (Has(emitArg, "content") /\ Has(emitArg.content, "seo")
              /\ Has(emitArg.content.seo, "description")
              /\ emitArg.content.seo.description = "")
             => ~Mounted(emitOut).setsDescription

-----------------------------------------------------------------------------
(* Claims about generateVueApp, checked under SpecApp *)

\* The names of the pages are pairwise distinct
DistinctNames(pages) ==
    \A i, j \in DOMAIN pages : i # j => pages[i].name # pages[j].name

\* The keys of the file map under src/views/
ViewKeys(files) == {k \in DOMAIN files : Len(k) >= 1 /\ k[1] = "src/views/"}

\* C3: for every list of pages with pairwise distinct names, no two pages map
\* to the same src/views/<name>.vue key after white space is stripped: the file
\* map has as many src/views entries as pages were passed in.
C3_ViewKeysUnique ==
    (emitPc = "done" /\ DistinctNames(emitArg.pages)) =>
        /\ Cardinality(ViewKeys(emitOut)) = Len(emitArg.pages)
        /\ \A i, j \in DOMAIN emitArg.pages :
              i # j => ViewKey(emitArg.pages[i]) # ViewKey(emitArg.pages[j])

\* What the code does guarantee: one src/views entry per distinct stripped name,
\* holding the source of the last page of that stripped name
C3_OneViewPerStrippedName ==
    emitPc = "done" =>
        /\ Cardinality(ViewKeys(emitOut))
              = Cardinality({StripSpaces(emitArg.pages[i].name) : i \in DOMAIN emitArg.pages})
        /\ \A i \in DOMAIN emitArg.pages :
              (\A j \in DOMAIN emitArg.pages :
                  j > i => StripSpaces(emitArg.pages[j].name)
                              # StripSpaces(emitArg.pages[i].name))
              => emitOut[<<"src/views/">> \o StripSpaces(emitArg.pages[i].name) \o <<".vue">>]
                    = generateVuePageComponent(emitArg.pages[i], emitArg.app)


RouteOpen == "  {\n    path: '"
RouteNameOpen == "',\n    name: '"
RouteImportOpen == "',\n    component: () => import('./views/"
RouteImportClose == ".vue')\n  }"

\* The route table read back from the text of src/main.js: for each element, in
\* the order of the text, its path, its name and the view its import names
ReadRoutes(main) ==
    LET pieces == Tail(SplitOn(main, RouteOpen))
    IN [i \in DOMAIN pieces |->
           [path |-> pieces[i][1],
            name |-> Between(pieces[i], RouteNameOpen, RouteImportOpen),
            view |-> Between(pieces[i], RouteImportOpen, RouteImportClose)]]

\* C18: the route table of src/main.js has exactly one entry per input page, in
\* the order of the page list, each with the page's path and the page's name
\* without white space, and each import names a src/views/<name>.vue key that
\* the same file map holds
C18_RouteTableMatchesPages ==
    emitPc = "done" =>
        LET routes == ReadRoutes(emitOut[<<"src/main.js">>])
        IN /\ Len(routes) = Len(emitArg.pages)
           /\ \A i \in DOMAIN routes :
                 /\ routes[i].path = emitArg.pages[i].path
                 /\ routes[i].name = SelectSeq(emitArg.pages[i].name, LAMBDA c : c # " ")
                 /\ <<"src/views/">> \o routes[i].view \o <<".vue">> \in DOMAIN emitOut

\* Two pages, the first with a space in its name, and their two routes
C18_Witness ==
    /\ emitPc = "done" /\ Len(emitArg.pages) = 2
    /\ emitArg.pages[1].name = <<"A", " ", "A">> /\ emitArg.pages[1].path = "/about"
    /\ emitArg.pages[2].name = <<"A">> /\ emitArg.pages[2].path = "/"
    /\ ReadRoutes(emitOut[<<"src/main.js">>]) =
          << [path |-> "/about", name |-> <<"A", "A">>, view |-> <<"A", "A">>],
             [path |-> "/", name |-> <<"A">>, view |-> <<"A">>] >>

-----------------------------------------------------------------------------
(* Deployment status *)

Terminal == {"success", "failed"}

\* The records POST /api/deploy/:appId created (a rollback record has no task)
Deployed == {i \in DOMAIN deployments : tasks[i] # "none"}

\* C1: a deployment record created by POST /api/deploy/:appId starts at
\* 'building', and once its status is 'success' or 'failed' it never changes
\* again, in every execution of the background task
C1_StatusTerminalOnceSet ==
    [][\A i \in Deployed :
          /\ deployments[i].status \in Terminal
                => deployments'[i].status = deployments[i].status
          /\ deployments'[i].status # deployments[i].status
                => deployments[i].status = "building"]_vars

\* C2: once the deferred task of a deployment has run to its end, the record's
\* status is 'success' or 'failed', also when a store update inside the task
\* failed: no deployment is left 'building' by a finished task
C2_FinishedTaskLeavesTerminal ==
    \A i \in Deployed :
        tasks[i] = "done" => deployments[i].status \in Terminal


-----------------------------------------------------------------------------
(* Claims about the deploy router, checked under Spec *)

RECURSIVE Malformed(_)
Malformed(components) ==
    \E i \in DOMAIN components :
        \/ Has(components[i], "scalarChildren")
        \/ Has(components[i], "children") /\ Malformed(components[i].children)

\* An app one of whose pages generateVueApp cannot emit
Unemittable(appId) ==
    \E i \in DOMAIN pagesOf[appId] :
        \/ ~Has(pagesOf[appId][i], "name")
        \/ /\ Has(pagesOf[appId][i], "content")
           /\ Has(pagesOf[appId][i].content, "components")
           /\ Malformed(pagesOf[appId][i].content.components)

\* The keys of a complete file map for the pages and components of an app
CompleteKeys(appId) ==
    {<<"package.json">>, <<"src/main.js">>, <<"src/App.vue">>}
    \cup {<<"src/views/">> \o StripSpaces(pagesOf[appId][i].name) \o <<".vue">> :
            i \in DOMAIN pagesOf[appId]}
    \cup {<<"src/components/">> \o componentsOf[appId][i].name \o <<".vue">> :
            i \in DOMAIN componentsOf[appId]}

NewRollback ==
    /\ Len(deployments') = Len(deployments) + 1
    /\ tasks'[Len(deployments')] = "none"

C16_WitnessRefused ==
    /\ response.code = 400 /\ Len(deployments) = 1
    /\ deployments[1].status = "building"


\* C17: POST /api/deploy/:appId does not wait for the build.  The step that
\* answers 202 is the step that created the record: the record is 'building',
\* its deferred task has not run, the answer names the record's deployment id
\* and reports 'building'; no 202 answer reports a terminal status
C17_AnsweredWhileBuilding ==
    [][/\ response'.code = 202 => response'.status = "building"
       /\ (response'.code = 202 /\ response' # response) =>
             LET n == Len(deployments')
             IN /\ n = Len(deployments) + 1
                /\ deployments'[n].status = "building"
                /\ deployments'[n].id = response'.deploymentId
                /\ tasks'[n] = "scheduled"
                /\ \A i \in DOMAIN deployments :
                      deployments'[i] = deployments[i] /\ tasks'[i] = tasks[i]
      ]_vars

\* The 202 answer stands while the record it announced is still 'building'
\* and its task is scheduled
C17_Witness ==
    /\ response.code = 202 /\ response.status = "building"
    /\ \E i \in Deployed :
          /\ deployments[i].id = response.deploymentId
          /\ deployments[i].status = "building" /\ tasks[i] = "scheduled"


-----------------------------------------------------------------------------
(* Claims about the apps router and the pages of the builder router *)

\* A document is deleted when its isDeleted field is true
IsDeleted(doc) == Has(doc, "isDeleted") /\ doc.isDeleted = TRUE

\* The ids of the non-deleted pages of an app
LivePages(appId) ==
    {i \in DOMAIN pageDocs : pageDocs[i].appId = appId /\ ~IsDeleted(pageDocs[i])}

HomePages(appId) == {i \in LivePages(appId) : pageDocs[i].isHome}

\* C13: in every reachable state each non-deleted app has exactly one
\* non-deleted page with isHome = true, after any sequence of app creation,
\* page creation, page update, page deletion and app duplication.
C13_ExactlyOneHomePage ==
    \A id \in DOMAIN appDocs :
        ~IsDeleted(appDocs[id]) => Cardinality(HomePages(id)) = 1


\* C14: every page document in the store has a path that begins with '/',
\* after any sequence of app creation, page creation, page update and app
\* duplication, whatever path the requests carry.
C14_StoredPathsBeginWithSlash ==
    \A i \in DOMAIN pageDocs :
        Len(pageDocs[i].path) >= 1 /\ pageDocs[i].path[1] = "/"

\* A request with the path 'a' was accepted and a page of its app holds '/a'
C14_Witness ==
    /\ reply.code \in {200, 201}
    /\ reply.path = <<"a">>
    /\ \E i \in DOMAIN pageDocs :
          pageDocs[i].appId = reply.app /\ pageDocs[i].path = <<"/", "a">>


\* The documents a step wrote: created, or changed
WrittenApps == {i \in DOMAIN appDocs' : i \notin DOMAIN appDocs \/ appDocs'[i] # appDocs[i]}

WrittenPages ==
    {i \in DOMAIN pageDocs' : i \notin DOMAIN pageDocs \/ pageDocs'[i] # pageDocs[i]}

LiveApps(userId) ==
    {i \in DOMAIN appDocs : appDocs[i].userId = userId /\ ~IsDeleted(appDocs[i])}

\* C19: in every reachable state the number of non-deleted apps owned by a
\* user is at most that user's subscription.appsLimit (3 when unset), for
\* every interleaving of concurrent POST /api/apps and POST
\* /api/apps/:id/duplicate requests of that user.
C19_AppsWithinLimit ==
    \A u \in Users : Cardinality(LiveApps(u)) <= appsLimit(u)


\* C20: no two non-deleted pages of the same app have the same stored path,
\* after any sequence of page creations and page updates, with request paths
\* given with or without a leading '/'.
C20_PathsUniquePerApp ==
    \A i, j \in DOMAIN pageDocs :
        /\ i # j
        /\ pageDocs[i].appId = pageDocs[j].appId
        /\ ~IsDeleted(pageDocs[i]) /\ ~IsDeleted(pageDocs[j])
        => pageDocs[i].path # pageDocs[j].path


-----------------------------------------------------------------------------
(* The deploymentId of an answer, checked under Spec *)

\* C21: the deploymentId returned in the 202 answer of POST /api/deploy/:appId
\* and the one returned by rollback identify the stored record: a later
\* request with that id finds the deployment and is not answered 404.
C21_ReturnedIdFindsRecord ==
    response.deploymentId # <<"none", 0>> => Found(response.deploymentId)


-----------------------------------------------------------------------------
(* The default Home page, checked under SpecBuilder *)

\* C22: immediately after a successful POST /api/apps the default Home page of
\* the new app is returned by the page query that filters isDeleted == false,
\* and validateAppForDeployment finds a home page.
C22_DefaultPageVisible ==
    reply.code = 201 /\ reply.app = 0
        => /\ \E i \in DOMAIN queryPages(Len(appDocs)) :
                 queryPages(Len(appDocs))[i].isHome
           /\ validateAppForDeployment(Len(appDocs)) = 0


-----------------------------------------------------------------------------
(* The page count of an app, checked under SpecBuilder *)

\* C23: whenever no request is in flight, stats.totalPages of an app equals
\* the number of its non-deleted pages.
C23_TotalPagesCounts ==
    inflight = {}
        => \A id \in DOMAIN appDocs :
              appDocs[id].totalPages = Cardinality(LivePages(id))


-----------------------------------------------------------------------------
(* Pagination, checked under SpecList *)

\* The p-th block of l items of a list
Block(list, p, l) == SubSeq(list, (p - 1) * l + 1, Min(p * l, Len(list)))

\* C24: for page p >= 1 and limit l >= 1 the answer of GET /api/apps and of
\* GET /api/users holds the p-th block of l items of the full ordered matching
\* list, its total equals the number of all matching items, and hasNextPage is
\* true exactly when matching items exist beyond block p.
C24_PageIsBlockOfFullList ==
    emitPc = "done" /\ Has(emitArg, "route")
        => /\ emitOut.items = Block(Matching(emitArg.n), emitArg.page, emitArg.limit)
           /\ emitOut.total = emitArg.n
           /\ emitOut.hasNextPage = (emitArg.n > emitArg.page * emitArg.limit)


-----------------------------------------------------------------------------
(* Soft-deleted apps, checked under SpecSoftDelete *)

\* C25: once DELETE /api/apps/:id has soft-deleted an app, every later
\* mutating request on that app is refused and changes no document: the app
\* document and the pages of the app stay as they are, so the app never
\* becomes 'published' and never gains a non-deleted page.
C25_DeletedAppIsFrozen ==
    [][\A id \in DOMAIN appDocs :
          IsDeleted(appDocs[id])
             => /\ appDocs'[id] = appDocs[id]
                /\ LivePages(id)' = {}]_vars


-----------------------------------------------------------------------------
(* The tooltip, checked under SpecTooltip *)

\* C27: after any sequence of mouseenter and mouseleave events and once all
\* pending timers have fired, the tooltip is visible if and only if the last
\* event was mouseenter.
C27_VisibleIffLastEnter ==
    timers = {} => (isVisible <=> lastEvent = "mouseenter")


-----------------------------------------------------------------------------
(* The navigation guard *)

\* A step in which router.beforeEach calls next() with no argument
LetThrough == navPc # "resolving" /\ navPc' = "resolving"

\* A step in which router.beforeEach calls next() with a location
Redirected == navPc' = "redirect" /\ (navPc # "redirect" \/ navTo' # navTo)

\* C26: the guard lets a navigation through to a requiresAuth route only for
\* an authenticated user, to a requiresGuest route only for an
\* unauthenticated one and to a requiresAdmin route only for an admin; a
\* redirect goes to login with the target as redirect query, to dashboard or
\* to unauthorized, for the matching reason, with the loading indicator off;
\* every decision is taken with isInitializing false; a route becomes current
\* only after the guard let it through, and the loading indicator is off when
\* a navigation has ended
C26_GuardProtectsRoutes ==
    [][/\ LetThrough =>
            /\ ~isInitializing'
            /\ Meta(navTo'.name).requiresAuth => isAuthenticated(authUser')
            /\ Meta(navTo'.name).requiresGuest => ~isAuthenticated(authUser')
            /\ Meta(navTo'.name).requiresAdmin => isAdmin(userProfile')
       /\ Redirected =>
            /\ ~isInitializing'
            /\ ~isLoading'
            /\ \/ /\ navLog' = "login"
                  /\ navTo'.name = "login"
                  /\ Meta(navTo'.redirect).requiresAuth
                  /\ ~isAuthenticated(authUser')
               \/ /\ navLog' = "dashboard"
                  /\ navTo' = Location("dashboard", "none")
                  /\ isAuthenticated(authUser')
               \/ /\ navLog' = "unauthorized"
                  /\ navTo' = Location("unauthorized", "none")
                  /\ isAuthenticated(authUser')
                  /\ ~isAdmin(userProfile')
       /\ currentRoute' # currentRoute =>
            /\ navPc = "resolving" /\ navLog = "next"
            /\ currentRoute' = navTo
       /\ navPc # "idle" /\ navPc' = "idle" => ~isLoading'
      ]_vars

\* A guard that waited for the initialization sent an unauthenticated user
\* from the admin dashboard to login, the target in the redirect query
C26_Witness ==
    /\ navPc = "redirect"
    /\ navTo = Location("login", "admin-dashboard")
    /\ ~isInitializing /\ ~isLoading /\ authUser = "null"
    /\ currentRoute = Location("none", "none")


-----------------------------------------------------------------------------
(* The layers of the UI store *)

\* The first open layer in the order of the Escape chain
FirstOpenLayer ==
    IF isSearchOpen THEN "search"
    ELSE IF isCommandPaletteOpen THEN "palette"
    ELSE IF modals # << >> THEN "modal"
    ELSE IF sidebars # << >> THEN "sidebar"
    ELSE IF confirmDialog # "null" THEN "confirm"
    ELSE "none"

\* The id given last among the ids of a list
LastOpened(list) ==
    CHOOSE id \in {list[i] : i \in 1..Len(list)} :
        \A i \in 1..Len(list) : list[i] <= id

\* The list without its id given last, the order of the others kept
WithoutLastOpened(list) ==
    SelectSeq(list, LAMBDA id : id # LastOpened(list))

-----------------------------------------------------------------------------
(* The notifications of the UI store *)

NoteIds(list) == {list[i].id : i \in 1..Len(list)}

\* A step in which the timer of notification id fires
TimerFired(id) == id \in noteTimers /\ id \notin noteTimers'

\* C29: the timer of a notification, when it fires, removes that notification
\* and no other, and changes nothing when the notification is no more in the
\* list; a persistent notification has no timer and no timer removes it; a
\* notification whose timer is pending is in the end not in the list
C29_TimerRemovesItsNotification ==
    /\ [][\A id \in 1..MaxNotes : TimerFired(id) =>
            /\ notifications' = SelectSeq(notifications, LAMBDA n : n.id # id)
            /\ id \notin NoteIds(notifications) => notifications' = notifications
            /\ \A i \in 1..Len(notifications) :
                  ("persistent" \in DOMAIN notifications[i]
                        /\ notifications[i].persistent)
                     => /\ notifications[i].id # id
                        /\ notifications[i].id \notin noteTimers
                        /\ notifications[i].id \in NoteIds(notifications')
      ]_vars
    /\ \A id \in 1..MaxNotes :
          (id \in noteTimers) ~> (id \notin NoteIds(notifications))

\* The timer of the second notification has fired and removed it from between
\* a persistent first and a third one
C29_Witness ==
    /\ lastTimer = 2
    /\ Len(notifications) = 2
    /\ notifications[1] = newNotification(1, [title |-> "t", persistent |-> TRUE])
    /\ notifications[2] = newNotification(3, [title |-> "t"])
    /\ 2 \notin noteTimers

=============================================================================
